---- MODULE Spec2Model ----
(***************************************************************************)
(* murmur: hotkey-triggered capture-and-transcribe pipeline.               *)
(*                                                                         *)
(* The model follows src/src/hotkey.py (HotkeyManager), src/src/audio.py   *)
(* (AudioRecorder), src/src/media_control.py (MediaController and its      *)
(* sync-over-async bridge _run_async) and src/src/main.py (MurmurApp, the  *)
(* orchestrator).  Threads of the program are: the key dispatcher (Press), *)
(* one handler thread per dispatched callback (threads), the bridge worker *)
(* threads (field w of the calling handler, and abandoned once the caller  *)
(* has timed out), and the audio driver thread (AudioCallback).            *)
(*                                                                         *)
(* A step of a handler thread is one access to shared data: the hotkey     *)
(* state (under HotkeyManager._lock), the recorder's flag and blocks       *)
(* (under AudioRecorder._lock), the recorder's stream reference and the    *)
(* orchestrator's _was_media_playing flag (both unlocked).                 *)
(***************************************************************************)
EXTENDS Integers, Sequences, FiniteSets

\* ---------------------------------------------------------------- bounds
\* Number of key presses delivered by the keyboard hook.
MaxPresses == 3
\* Number of blocks the audio driver delivers over the whole run.
MaxBlocks == 1

VARIABLES
    cfgPause,          \* what `config.pause_media_while_recording` yields: "absent" | "on" | "off"
    winrt,             \* whether the winrt media-control modules can be imported
    available,         \* MediaController._available: "none" | "yes" | "no"
    state,             \* HotkeyManager._state: "idle" | "recording" | "processing"
    presses,           \* key presses delivered so far
    threads,           \* handler threads, in order of dispatch
    recording,         \* AudioRecorder._recording
    audioData,         \* AudioRecorder._audio_data: the blocks, each named by the stream it came from
    stream,            \* AudioRecorder._stream: 0 is None, else the stream's id
    openStreams,       \* ids of the sd.InputStream objects opened and not closed
    delivered,         \* blocks delivered by the audio driver so far
    wasMediaPlaying,   \* MurmurApp._was_media_playing
    media,             \* playback status of the active media session: "playing" | "paused"
    abandoned,         \* per operation, the bridge workers still alive after their caller timed out
    owed,              \* invocations of pause() minus invocations of play()
    recSince,          \* entries into Recording since the last Processing -> Idle transition
    caller,            \* position of the thread inside _run_async: "out" | "join" | "alive" | "back"
    clock,             \* seconds the caller has spent in thread.join(timeout=5)
    workers,           \* the bridge's worker threads, one per call, in order of creation
    outcome,           \* which return of _run_async the last call took
    answer,            \* what is_media_playing(), pause() or play() returned for the last call
    client,            \* SpecRecorder: where the recorder's one client is: "idle" | "start_open" | "stop_collect"
    lastCall,          \* SpecRecorder: the recorder method called last: "none" | "start" | "stop"
    now,               \* SpecRecorder: time.time(), one tick per call of the recorder
    recordingStart,    \* AudioRecorder._recording_start (0 is None)
    sampleRate,        \* AudioRecorder.sample_rate
    returned,          \* SpecRecorder: what the last call of the recorder returned
    started,           \* ghost: a start_recording() has opened its stream and no stop_recording() was called since
    accepted,          \* ghost: the blocks the driver delivered while recording, since the last start
    procPc,            \* SpecCycle: where the stop handler is from main.py:149 on
    audioIn,           \* SpecCycle: audio_data as stop_recording() returned it: "None" | "data"
    text,              \* SpecCycle: what transcribe() gave: "pending" | "raised" | "" | a text
    transcribes,       \* SpecCycle: calls of transcriber.transcribe() in this cycle
    notes,             \* SpecCycle: calls of the notifier in this cycle, in order
    copies,            \* SpecCycle: calls of copy_to_clipboard() in this cycle, with their outcome
    logs,              \* SpecCycle: calls of logger.log() in this cycle, with their outcome
    cycles,            \* SpecCycle: cycles begun so far
    mthreads,          \* SpecMedia: the threads that call the MediaController, each with its call in progress
    probes,            \* SpecMedia: times the winrt modules were imported by is_available()
    bridgeThreads,     \* SpecMedia: worker threads started by _run_async
    mcalls,            \* SpecMedia: calls of the MediaController made so far
    cfgHotkey,         \* SpecBinding: the "hotkey" entry of the configuration
    bindings,          \* SpecBinding: per key combination, the hotkeys installed in the keyboard library
    hotkeyRegistered,  \* HotkeyManager._hotkey_registered
    bindRet,           \* SpecBinding: the last call of the HotkeyManager and how it came back
    bindCalls,         \* SpecBinding: calls made so far
    rawText,           \* SpecText: result["text"] of the speech model, a sequence of characters
    textPc,            \* SpecText: where the cycle is: "out" | "transcribe" | "copy" | "finally" | "done"
    cooked,            \* SpecText: the text transcribe() returned
    sink,              \* SpecText: the texts the clipboard has received, in order
    lgroup,            \* SpecLocks: the object whose threads run: "hotkey" | "recorder"
    lthreads,          \* SpecLocks: per thread, the method it is in, its next step and the calls it has made
    lockOwner,         \* SpecLocks: per object, the thread that holds its _lock ("none" when free)
    spawned,           \* SpecLocks: callback threads started by the key press handler
    stopPc             \* where MurmurApp.stop() is: "running" before the call, "stopped" after its return

\* Variables of the bridge taken on its own (SpecBridge).
bridgeVars == <<caller, clock, workers, outcome, answer>>

\* Variables of the recorder taken on its own (SpecRecorder), besides the
\* recorder's fields recording, audioData, stream, openStreams and delivered.
recVars == <<client, lastCall, now, recordingStart, sampleRate, returned, started, accepted>>

\* Variables of the stop handler's post-processing taken on its own (SpecCycle),
\* besides the hotkey state.
cycleVars == <<procPc, audioIn, text, transcribes, notes, copies, logs, cycles>>

\* Variables of the MediaController's public methods taken on their own
\* (SpecMedia), besides winrt and available.
mediaVars == <<mthreads, probes, bridgeThreads, mcalls>>

\* Variables of hotkey registration taken on its own (SpecBinding).
bindVars == <<cfgHotkey, bindings, hotkeyRegistered, bindRet, bindCalls>>

\* Variables of the text's way from the speech model to the clipboard taken on
\* its own (SpecText), besides the hotkey state.
textVars == <<rawText, textPc, cooked, sink>>

\* Variables of the two locks taken on their own (SpecLocks), besides the hotkey
\* state and the recorder's flag.
lockVars == <<lgroup, lthreads, lockOwner, spawned>>

\* Variables of the other components taken on their own.
extraVars == <<mediaVars, bindVars, textVars, lockVars, stopPc>>

\* Variables of the application (Spec).
appVars == <<cfgPause, winrt, available, state, presses, threads, recording, audioData,
             stream, openStreams, delivered, wasMediaPlaying, media, abandoned,
             owed, recSince>>

vars == <<cfgPause, winrt, available, state, presses, threads, recording, audioData,
          stream, openStreams, delivered, wasMediaPlaying, media, abandoned,
          owed, recSince, bridgeVars, recVars, cycleVars, extraVars>>

\* What the steps of the bridge leave alone.
nonBridge == <<appVars, recVars, cycleVars, extraVars>>

\* What the steps of the recorder on its own leave alone.
nonRecorder == <<cfgPause, winrt, available, state, presses, threads, wasMediaPlaying, media,
                 abandoned, owed, recSince, bridgeVars, cycleVars, extraVars>>

\* What the steps of the post-processing on its own leave alone.
nonCycle == <<cfgPause, winrt, available, presses, threads, recording, audioData, stream,
              openStreams, delivered, wasMediaPlaying, media, abandoned, owed, bridgeVars,
              recVars, extraVars>>

\* What the steps of the MediaController's methods on their own leave alone.
nonMedia == <<cfgPause, winrt, state, presses, threads, recording, audioData, stream,
              openStreams, delivered, wasMediaPlaying, media, abandoned, owed, recSince,
              bridgeVars, recVars, cycleVars, bindVars, textVars, lockVars, stopPc>>

\* What the steps of hotkey registration on its own leave alone.
nonBinding == <<appVars, bridgeVars, recVars, cycleVars, mediaVars, textVars, lockVars,
                stopPc>>

\* What the steps of the text's way on its own leave alone.
nonText == <<cfgPause, winrt, available, presses, threads, recording, audioData, stream,
             openStreams, delivered, wasMediaPlaying, media, abandoned, owed, bridgeVars,
             recVars, cycleVars, mediaVars, bindVars, lockVars, stopPc>>

\* What the steps of the threads of SpecLocks leave alone.
nonLocks == <<cfgPause, winrt, available, presses, threads, audioData, stream, openStreams,
              delivered, wasMediaPlaying, media, abandoned, owed, bridgeVars, recVars,
              cycleVars, mediaVars, bindVars, textVars, stopPc>>

\* The threads of SpecLocks: the keyboard library's dispatcher, a callback
\* thread, a thread that asks for the state, the recorder's client and the
\* audio driver.
LThreads == {"dispatcher", "handler", "reader", "client", "driver"}

\* Key combinations the configuration may name.
Keys == {"ctrl+shift+space", "f9"}

\* The threads that call the MediaController in SpecMedia.
MThreads == {1, 2}

Tids == 1..MaxPresses

\* A handler thread as dispatched by threading.Thread(target=...).start().
\*   kind    "start" (_on_recording_start) or "stop" (_on_recording_stop)
\*   pc      position in the handler
\*   w       bridge worker of the call in progress: "none" | "run" | "true" | "false"
\*   audio   audio_data local of the stop handler: <<>> is None, else the blocks
\*   paused  ghost: this handler invoked pause() and no handler has invoked
\*           play() since
\* The locals of a handler that has returned ("done") or ended on an
\* unhandled exception ("crashed") are gone: its record keeps kind and pc only.
NewThread(kind) ==
    [kind |-> kind,
     pc |-> IF kind = "start" THEN "s_begin" ELSE "p_begin",
     w |-> "none", audio |-> <<>>, paused |-> FALSE, mark |-> "none"]

Ended(kind, how) == [NewThread(kind) EXCEPT !.pc = how]

\* A handler that has ended, with its ghost mark kept: "pfail" on a start
\* handler whose pause() failed, "played" on a handler that has invoked play().
Kept(th, how) == [Ended(th.kind, how) EXCEPT !.mark = th.mark]

Min(a, b) == IF a < b THEN a ELSE b

\* Handler t invokes play() and waits in the bridge (worker state w); the ghost
\* field paused of every handler is cleared.
InvokePlay(t, pcWait, w) ==
    [u \in DOMAIN threads |->
        IF u = t
        THEN [threads[u] EXCEPT !.pc = pcWait, !.w = w, !.paused = FALSE,
                                !.mark = IF @ = "pfail" THEN @ ELSE "played"]
        ELSE [threads[u] EXCEPT !.paused = FALSE]]

\* ------------------------------------------------------------ HotkeyManager

\* Ghost bookkeeping of a state change: entries into Recording since the last
\* Processing -> Idle transition (saturating at 2).
RecSinceAfter(new) ==
    IF new = "recording" /\ state # "recording" THEN Min(recSince + 1, 2)
    ELSE IF new = "idle" /\ state = "processing" THEN 0
    ELSE recSince

\* HotkeyManager._set_state, called with the lock held.
SetState(new) ==
    /\ state' = new
    /\ recSince' = RecSinceAfter(new)

\* Mutant of Press: a press while Processing starts a new recording.
PressRestart ==
    /\ presses < MaxPresses
    /\ presses' = presses + 1
    /\ IF state = "idle" \/ state = "processing"
       THEN /\ SetState("recording")
            /\ threads' = Append(threads, NewThread("start"))
       ELSE /\ SetState("processing")
            /\ threads' = Append(threads, NewThread("stop"))
    /\ UNCHANGED <<cfgPause, winrt, available, recording, audioData, stream, openStreams,
                   delivered, wasMediaPlaying, media, abandoned, owed, bridgeVars, recVars,
                   cycleVars, extraVars>>

\* Mutant of Press: the stop callback is dispatched on two threads.
PressDouble ==
    /\ presses < MaxPresses
    /\ presses' = presses + 1
    /\ IF state = "idle"
       THEN /\ SetState("recording")
            /\ threads' = Append(threads, NewThread("start"))
       ELSE IF state = "recording"
       THEN /\ SetState("processing")
            /\ threads' = IF Len(threads) + 2 <= MaxPresses
                          THEN Append(Append(threads, NewThread("stop")), NewThread("stop"))
                          ELSE Append(threads, NewThread("stop"))
       ELSE UNCHANGED <<state, recSince, threads>>
    /\ UNCHANGED <<cfgPause, winrt, available, recording, audioData, stream, openStreams,
                   delivered, wasMediaPlaying, media, abandoned, owed, bridgeVars, recVars,
                   cycleVars, extraVars>>

\* HotkeyManager._on_hotkey_pressed: the whole body runs under self._lock.  The
\* keyboard hook calls it until MurmurApp.stop() has removed the hotkey.
Press ==
    /\ stopPc = "running"
    /\ presses < MaxPresses
    /\ presses' = presses + 1
    /\ IF state = "idle"
       THEN /\ SetState("recording")
            /\ threads' = Append(threads, NewThread("start"))
       ELSE IF state = "recording"
       THEN /\ SetState("processing")
            /\ threads' = Append(threads, NewThread("stop"))
       ELSE UNCHANGED <<state, recSince, threads>>
    /\ UNCHANGED <<cfgPause, winrt, available, recording, audioData, stream, openStreams,
                   delivered, wasMediaPlaying, media, abandoned, owed, bridgeVars, recVars,
                   cycleVars, extraVars>>

\* ---------------------------------------------------------- MediaController

\* MediaController.is_available: the cached probe result.
IsAvailable == IF available = "none" THEN winrt ELSE available = "yes"

\* MediaController._available after is_available() has run.
AvailableAfter == IF available = "none" THEN (IF winrt THEN "yes" ELSE "no") ELSE available

Ops == {"query", "pause", "play"}

\* The operations that act on the media session.
ActingOps == {"pause", "play"}

\* The operation a handler waits for at a join.
OpAt(pc) ==
    IF pc = "s_query_wait" THEN "query"
    ELSE IF pc = "s_pause_wait" THEN "pause"
    ELSE "play"

Waiting(t) == threads[t].pc \in {"s_query_wait", "s_pause_wait", "s_play_wait", "p_play_wait"}

\* Effect of a completed bridge operation on the media session.
MediaAfter(op, ok) ==
    IF ok /\ op = "pause" THEN "paused"
    ELSE IF ok /\ op = "play" THEN "playing"
    ELSE media

\* run_in_thread of _run_async, seen from the orchestrator: the worker of handler
\* t finishes.  "true" is the operation returning True, which is when it acts on
\* the session; "false" is every other ending (the operation returns False, or
\* the worker raises and _run_async returns None), all of which the callers see
\* as False.  A query yields True only when the session is playing.
WorkerFinish(t) ==
    /\ Waiting(t)
    /\ threads[t].w = "run"
    /\ \E r \in {"true", "false"} :
         /\ (OpAt(threads[t].pc) = "query" /\ r = "true") => media = "playing"
         /\ threads' = [threads EXCEPT ![t].w = r]
         /\ media' = MediaAfter(OpAt(threads[t].pc), r = "true")
    /\ UNCHANGED <<cfgPause, winrt, available, state, presses, recording, audioData, stream,
                   openStreams, delivered, wasMediaPlaying, abandoned, owed, recSince,
                   bridgeVars, recVars, cycleVars, extraVars>>

\* A pause or play worker whose caller has timed out finishes later; nobody reads
\* its result.
AbandonedFinish(op) ==
    /\ abandoned[op] > 0
    /\ abandoned' = [abandoned EXCEPT ![op] = @ - 1]
    /\ \E ok \in BOOLEAN : media' = MediaAfter(op, ok)
    /\ UNCHANGED <<cfgPause, winrt, available, state, presses, threads, recording, audioData,
                   stream, openStreams, delivered, wasMediaPlaying, owed, recSince,
                   bridgeVars, recVars, cycleVars, extraVars>>

\* The value a handler gets from is_media_playing(), pause() or play():
\* _run_async gives None after thread.join(timeout=5) when the worker is still
\* alive (timeout) or has raised, and the callers map None to False.
JoinValue(t) == threads[t].w = "true"

\* The workers left alive once handler t has returned from its join.  A query
\* worker cannot act on the session any more and is not tracked.
AbandonedAfter(t) ==
    IF threads[t].w = "run" /\ OpAt(threads[t].pc) # "query"
    THEN [abandoned EXCEPT ![OpAt(threads[t].pc)] = @ + 1]
    ELSE abandoned

\* ------------------------------------------------------------- MurmurApp
\* _on_recording_start

\* What the lookup config.pause_media_while_recording of main.py:114 can yield.
\* src/src/config.py defines no such property and no __getattr__, so with the
\* Config class as it stands the lookup raises AttributeError ("absent").  "on"
\* and "off" are the values of the option the specification describes (the
\* "pause media while recording" flag), which main.py and settings_gui.py read.
ConfigPauseValues == {"absent", "on", "off"}

\* main.py:109-115: notifications, then the configuration lookup and the call of
\* is_media_playing().  When the lookup raises, nothing catches it and the
\* thread ends ("crashed") before capture is started.
StartBegin(t) ==
    /\ threads[t].pc = "s_begin"
    /\ IF cfgPause = "absent"
       THEN /\ threads' = [threads EXCEPT ![t] = Ended(@.kind, "crashed")]
            /\ UNCHANGED <<available, wasMediaPlaying>>
       ELSE IF cfgPause = "off"
       THEN /\ threads' = [threads EXCEPT ![t].pc = "s_rec"]
            /\ UNCHANGED <<available, wasMediaPlaying>>
       ELSE /\ available' = AvailableAfter
            /\ IF IsAvailable
               THEN /\ threads' = [threads EXCEPT ![t].pc = "s_query_wait", ![t].w = "run"]
                    /\ UNCHANGED wasMediaPlaying
               ELSE /\ threads' = [threads EXCEPT ![t].pc = "s_chk"]
                    /\ wasMediaPlaying' = FALSE
    /\ UNCHANGED <<cfgPause, winrt, state, presses, recording, audioData, stream, openStreams,
                   delivered, media, abandoned, owed, recSince, bridgeVars, recVars,
                   cycleVars, extraVars>>

\* main.py:115: is_media_playing() returns and the flag is assigned.
StartQueryReturn(t) ==
    /\ threads[t].pc = "s_query_wait"
    /\ wasMediaPlaying' = JoinValue(t)
    /\ abandoned' = AbandonedAfter(t)
    /\ threads' = [threads EXCEPT ![t].pc = "s_chk", ![t].w = "none"]
    /\ UNCHANGED <<cfgPause, winrt, available, state, presses, recording, audioData, stream,
                   openStreams, delivered, media, owed, recSince, bridgeVars, recVars,
                   cycleVars, extraVars>>

\* main.py:116-117: the flag is read back; pause() is called when it is set.
StartCheck(t) ==
    /\ threads[t].pc = "s_chk"
    /\ IF wasMediaPlaying
       THEN /\ available' = AvailableAfter
            /\ owed' = owed + 1
            /\ IF IsAvailable
               THEN threads' = [threads EXCEPT ![t].pc = "s_pause_wait", ![t].w = "run",
                                               ![t].paused = TRUE]
               ELSE threads' = [threads EXCEPT ![t].pc = "s_rec", ![t].paused = TRUE,
                                               ![t].mark = "pfail"]
       ELSE /\ threads' = [threads EXCEPT ![t].pc = "s_rec"]
            /\ UNCHANGED <<available, owed>>
    /\ UNCHANGED <<cfgPause, winrt, state, presses, recording, audioData, stream, openStreams,
                   delivered, wasMediaPlaying, media, abandoned, recSince, bridgeVars,
                   recVars, cycleVars, extraVars>>

\* main.py:117-121: pause() returns; a failure is only reported.
StartPauseReturn(t) ==
    /\ threads[t].pc = "s_pause_wait"
    /\ abandoned' = AbandonedAfter(t)
    /\ threads' = [threads EXCEPT ![t].pc = "s_rec", ![t].w = "none",
                                  ![t].mark = IF JoinValue(t) THEN "none" ELSE "pfail"]
    /\ UNCHANGED <<cfgPause, winrt, available, state, presses, recording, audioData, stream,
                   openStreams, delivered, wasMediaPlaying, media, owed, recSince, bridgeVars,
                   recVars, cycleVars, extraVars>>

\* audio.py:39-45: the locked part of AudioRecorder.start_recording.
StartRecLock(t) ==
    /\ threads[t].pc = "s_rec"
    /\ IF recording
       THEN /\ threads' = [threads EXCEPT ![t] = Ended(@.kind, "done")]
            /\ UNCHANGED <<recording, audioData>>
       ELSE /\ recording' = TRUE
            /\ audioData' = <<>>
            /\ threads' = [threads EXCEPT ![t].pc = "s_open"]
    /\ UNCHANGED <<cfgPause, winrt, available, state, presses, stream, openStreams, delivered,
                   wasMediaPlaying, media, abandoned, owed, recSince, bridgeVars, recVars,
                   cycleVars, extraVars>>

\* audio.py:47-54: sd.InputStream(...) and start(); the device may fail to open,
\* and the exception reaches the handler's except clause (main.py:125).
StartOpen(t) ==
    /\ threads[t].pc = "s_open"
    /\ \E ok \in BOOLEAN :
         IF ok
         THEN /\ stream' = t
              /\ openStreams' = openStreams \cup {t}
              /\ threads' = [threads EXCEPT ![t] = Kept(@, "done")]
         ELSE /\ threads' = [threads EXCEPT ![t].pc = "s_exc"]
              /\ UNCHANGED <<stream, openStreams>>
    /\ UNCHANGED <<cfgPause, winrt, available, state, presses, recording, audioData,
                   delivered, wasMediaPlaying, media, abandoned, owed, recSince, bridgeVars,
                   recVars, cycleVars, extraVars>>

\* main.py:126-129: the except clause reports the error and calls set_idle().
StartExcept(t) ==
    /\ threads[t].pc = "s_exc"
    /\ SetState("idle")
    /\ threads' = [threads EXCEPT ![t].pc = "s_exc_chk"]
    /\ UNCHANGED <<cfgPause, winrt, available, presses, recording, audioData, stream,
                   openStreams, delivered, wasMediaPlaying, media, abandoned, owed,
                   bridgeVars, recVars, cycleVars, extraVars>>

\* main.py:131-132: the flag is read; play() is called when it is set.
StartExceptCheck(t) ==
    /\ threads[t].pc = "s_exc_chk"
    /\ IF wasMediaPlaying
       THEN /\ available' = AvailableAfter
            /\ owed' = owed - 1
            /\ threads' = InvokePlay(t, "s_play_wait", IF IsAvailable THEN "run" ELSE "false")
       ELSE /\ threads' = [threads EXCEPT ![t] = Ended(@.kind, "done")]
            /\ UNCHANGED <<available, owed>>
    /\ UNCHANGED <<cfgPause, winrt, state, presses, recording, audioData, stream, openStreams,
                   delivered, wasMediaPlaying, media, abandoned, recSince, bridgeVars,
                   recVars, cycleVars, extraVars>>

\* main.py:132-133: play() returns and the flag is reset.
StartPlayReturn(t) ==
    /\ threads[t].pc = "s_play_wait"
    /\ abandoned' = AbandonedAfter(t)
    /\ wasMediaPlaying' = FALSE
    /\ threads' = [threads EXCEPT ![t] = Ended(@.kind, "done")]
    /\ UNCHANGED <<cfgPause, winrt, available, state, presses, recording, audioData, stream,
                   openStreams, delivered, media, owed, recSince, bridgeVars, recVars,
                   cycleVars, extraVars>>

\* _on_recording_stop

\* main.py:138-140, audio.py:63-66: the first locked part of stop_recording().
StopLock(t) ==
    /\ threads[t].pc = "p_begin"
    /\ IF recording
       THEN /\ recording' = FALSE
            /\ threads' = [threads EXCEPT ![t].pc = "p_test"]
       ELSE /\ threads' = [threads EXCEPT ![t].pc = "p_resume"]
            /\ UNCHANGED recording
    /\ UNCHANGED <<cfgPause, winrt, available, state, presses, audioData, stream, openStreams,
                   delivered, wasMediaPlaying, media, abandoned, owed, recSince, bridgeVars,
                   recVars, cycleVars, extraVars>>

\* audio.py:68: `if self._stream:`, read without the lock.
StopTest(t) ==
    /\ threads[t].pc = "p_test"
    /\ threads' = [threads EXCEPT ![t].pc = IF stream = 0 THEN "p_collect" ELSE "p_close"]
    /\ UNCHANGED <<cfgPause, winrt, available, state, presses, recording, audioData, stream,
                   openStreams, delivered, wasMediaPlaying, media, abandoned, owed, recSince,
                   bridgeVars, recVars, cycleVars, extraVars>>

\* audio.py:69-70: self._stream.stop() and .close(); the attribute is read again,
\* and None has no stop(), so the handler thread ends if it was cleared meanwhile.
StopClose(t) ==
    /\ threads[t].pc = "p_close"
    /\ IF stream = 0
       THEN /\ threads' = [threads EXCEPT ![t] = Kept(@, "crashed")]
            /\ UNCHANGED openStreams
       ELSE /\ openStreams' = openStreams \ {stream}
            /\ threads' = [threads EXCEPT ![t].pc = "p_null"]
    /\ UNCHANGED <<cfgPause, winrt, available, state, presses, recording, audioData, stream,
                   delivered, wasMediaPlaying, media, abandoned, owed, recSince, bridgeVars,
                   recVars, cycleVars, extraVars>>

\* audio.py:71: self._stream = None.
StopNull(t) ==
    /\ threads[t].pc = "p_null"
    /\ stream' = 0
    /\ threads' = [threads EXCEPT ![t].pc = "p_collect"]
    /\ UNCHANGED <<cfgPause, winrt, available, state, presses, recording, audioData,
                   openStreams, delivered, wasMediaPlaying, media, abandoned, owed, recSince,
                   bridgeVars, recVars, cycleVars, extraVars>>

\* audio.py:73-80: the second locked part: no blocks is None, else the blocks are
\* concatenated, handed to the caller and cleared.
StopCollect(t) ==
    /\ threads[t].pc = "p_collect"
    /\ threads' = [threads EXCEPT ![t].pc = "p_resume", ![t].audio = audioData]
    /\ audioData' = <<>>
    /\ UNCHANGED <<cfgPause, winrt, available, state, presses, recording, stream, openStreams,
                   delivered, wasMediaPlaying, media, abandoned, owed, recSince, bridgeVars,
                   recVars, cycleVars, extraVars>>

\* Mutant of StopResume: media is resumed only when audio was produced.
StopResumeOnlyWithAudio(t) ==
    /\ threads[t].pc = "p_resume"
    /\ IF wasMediaPlaying /\ threads[t].audio # <<>>
       THEN /\ available' = AvailableAfter
            /\ owed' = owed - 1
            /\ threads' = InvokePlay(t, "p_play_wait", IF IsAvailable THEN "run" ELSE "false")
       ELSE /\ threads' = [threads EXCEPT ![t].pc = "p_branch"]
            /\ UNCHANGED <<available, owed>>
    /\ UNCHANGED <<cfgPause, winrt, state, presses, recording, audioData, stream, openStreams,
                   delivered, wasMediaPlaying, media, abandoned, recSince, bridgeVars,
                   recVars, cycleVars, extraVars>>

\* main.py:143-144: the flag is read; play() is called when it is set.
StopResume(t) ==
    /\ threads[t].pc = "p_resume"
    /\ IF wasMediaPlaying
       THEN /\ available' = AvailableAfter
            /\ owed' = owed - 1
            /\ threads' = InvokePlay(t, "p_play_wait", IF IsAvailable THEN "run" ELSE "false")
       ELSE /\ threads' = [threads EXCEPT ![t].pc = "p_branch"]
            /\ UNCHANGED <<available, owed>>
    /\ UNCHANGED <<cfgPause, winrt, state, presses, recording, audioData, stream, openStreams,
                   delivered, wasMediaPlaying, media, abandoned, recSince, bridgeVars,
                   recVars, cycleVars, extraVars>>

\* main.py:144-147: play() returns; the flag is reset whatever it returned.
StopPlayReturn(t) ==
    /\ threads[t].pc = "p_play_wait"
    /\ abandoned' = AbandonedAfter(t)
    /\ wasMediaPlaying' = FALSE
    /\ threads' = [threads EXCEPT ![t].pc = "p_branch", ![t].w = "none"]
    /\ UNCHANGED <<cfgPause, winrt, available, state, presses, recording, audioData, stream,
                   openStreams, delivered, media, owed, recSince, bridgeVars, recVars,
                   cycleVars, extraVars>>

\* main.py:149-161: no audio ends the cycle with set_idle(); otherwise
\* _process_audio begins with set_processing() and calls transcribe().
StopBranch(t) ==
    /\ threads[t].pc = "p_branch"
    /\ IF threads[t].audio = <<>>
       THEN /\ SetState("idle")
            /\ threads' = [threads EXCEPT ![t] = Kept(@, "done")]
       ELSE /\ SetState("processing")
            /\ threads' = [threads EXCEPT ![t].pc = "p_transcribe"]
    /\ UNCHANGED <<cfgPause, winrt, available, presses, recording, audioData, stream,
                   openStreams, delivered, wasMediaPlaying, media, abandoned, owed,
                   bridgeVars, recVars, cycleVars, extraVars>>

\* Mutant of StopFinally: set_idle() is skipped when transcribe() raises.
StopFinallyNoIdle(t) ==
    /\ threads[t].pc = "p_transcribe"
    /\ \E raised \in BOOLEAN :
         IF raised THEN UNCHANGED <<state, recSince>> ELSE SetState("idle")
    /\ threads' = [threads EXCEPT ![t] = Kept(@, "done")]
    /\ UNCHANGED <<cfgPause, winrt, available, presses, recording, audioData, stream,
                   openStreams, delivered, wasMediaPlaying, media, abandoned, owed,
                   bridgeVars, recVars, cycleVars, extraVars>>

\* main.py:163-190: transcribe() returns a text, returns the empty string or
\* raises; every exception is caught by the except clause, and the finally
\* clause calls set_idle().
StopFinally(t) ==
    /\ threads[t].pc = "p_transcribe"
    /\ SetState("idle")
    /\ threads' = [threads EXCEPT ![t] = Kept(@, "done")]
    /\ UNCHANGED <<cfgPause, winrt, available, presses, recording, audioData, stream,
                   openStreams, delivered, wasMediaPlaying, media, abandoned, owed,
                   bridgeVars, recVars, cycleVars, extraVars>>

\* ------------------------------------------------------------ MurmurApp.stop

\* What the steps of MurmurApp.stop() leave alone, besides the recorder's fields.
nonStop == <<cfgPause, winrt, available, state, presses, threads, delivered, wasMediaPlaying,
             media, abandoned, owed, recSince, bridgeVars, recVars, cycleVars, mediaVars,
             bindVars, textVars, lockVars>>

\* main.py:95-100: stop() is called while the application runs (from the tray's
\* exit entry or from run()); _running is cleared, the hotkey removed and the
\* tray icon stopped.  Handler threads already dispatched keep running.
AppStop ==
    /\ stopPc = "running"
    /\ stopPc' = "q_check"
    /\ UNCHANGED <<recording, audioData, stream, openStreams>>
    /\ UNCHANGED nonStop

\* main.py:102, audio.py:82-85: is_recording() reads the flag under the lock;
\* stop() returns when it is clear.
AppStopCheck ==
    /\ stopPc = "q_check"
    /\ stopPc' = IF recording THEN "q_lock" ELSE "stopped"
    /\ UNCHANGED <<recording, audioData, stream, openStreams>>
    /\ UNCHANGED nonStop

\* main.py:103, audio.py:63-66: the first locked part of stop_recording().
AppStopLock ==
    /\ stopPc = "q_lock"
    /\ IF recording
       THEN /\ recording' = FALSE
            /\ stopPc' = "q_test"
       ELSE /\ stopPc' = "stopped"
            /\ UNCHANGED recording
    /\ UNCHANGED <<audioData, stream, openStreams>>
    /\ UNCHANGED nonStop

\* audio.py:68: `if self._stream:`, read without the lock.
AppStopTest ==
    /\ stopPc = "q_test"
    /\ stopPc' = IF stream = 0 THEN "q_collect" ELSE "q_close"
    /\ UNCHANGED <<recording, audioData, stream, openStreams>>
    /\ UNCHANGED nonStop

\* audio.py:69-70: self._stream.stop() and .close(); when the attribute was
\* cleared meanwhile the AttributeError leaves stop() ("raised").
AppStopClose ==
    /\ stopPc = "q_close"
    /\ IF stream = 0
       THEN /\ stopPc' = "raised"
            /\ UNCHANGED openStreams
       ELSE /\ openStreams' = openStreams \ {stream}
            /\ stopPc' = "q_null"
    /\ UNCHANGED <<recording, audioData, stream>>
    /\ UNCHANGED nonStop

\* audio.py:71: self._stream = None.
AppStopNull ==
    /\ stopPc = "q_null"
    /\ stream' = 0
    /\ stopPc' = "q_collect"
    /\ UNCHANGED <<recording, audioData, openStreams>>
    /\ UNCHANGED nonStop

\* audio.py:73-80, main.py:103-105: the second locked part; stop() drops what
\* stop_recording() returns, and returns.
AppStopCollect ==
    /\ stopPc = "q_collect"
    /\ audioData' = <<>>
    /\ stopPc' = "stopped"
    /\ UNCHANGED <<recording, stream, openStreams>>
    /\ UNCHANGED nonStop

\* ------------------------------------------------------------ AudioRecorder

\* audio.py:87-97: the driver thread hands a block of an open stream to
\* _audio_callback, which appends it under the lock while recording.
AudioCallback(s) ==
    /\ s \in openStreams
    /\ delivered < MaxBlocks
    /\ delivered' = delivered + 1
    /\ audioData' = IF recording THEN Append(audioData, s) ELSE audioData
    /\ UNCHANGED <<cfgPause, winrt, available, state, presses, threads, recording, stream,
                   openStreams, wasMediaPlaying, media, abandoned, owed, recSince, bridgeVars,
                   recVars, cycleVars, extraVars>>

\* ------------------------------------------------------------ specification

\* No thread has called the MediaController.
MediaAtRest ==
    /\ mthreads = [t \in MThreads |-> [pc |-> "idle", op |-> "none", env |-> "none", ret |-> "none"]]
    /\ probes = 0
    /\ bridgeThreads = 0
    /\ mcalls = 0

\* Nothing is registered; the configuration names the default hotkey
\* (config.py:12).
BindingAtRest ==
    /\ cfgHotkey = "ctrl+shift+space"
    /\ bindings = [k \in Keys |-> 0]
    /\ hotkeyRegistered = FALSE
    /\ bindRet = [op |-> "none", arg |-> "none", ret |-> "none"]
    /\ bindCalls = 0

\* No text is on its way.
TextAtRest ==
    /\ rawText = <<>>
    /\ textPc = "out"
    /\ cooked = <<>>
    /\ sink = <<>>

\* No thread is in a method and both locks are free.
LocksAtRest ==
    /\ lgroup = "hotkey"
    /\ lthreads = [t \in LThreads |-> [meth |-> "none", i |-> 0, n |-> 0]]
    /\ lockOwner = [o \in {"hotkey", "recorder"} |-> "none"]
    /\ spawned = 0

\* The components taken on their own are at rest.
ExtrasAtRest ==
    /\ MediaAtRest
    /\ BindingAtRest
    /\ TextAtRest
    /\ LocksAtRest
    /\ stopPc = "running"

\* No stop handler has reached its post-processing.
CycleAtRest ==
    /\ procPc = "out"
    /\ audioIn = "None"
    /\ text = "pending"
    /\ transcribes = 0
    /\ notes = <<>>
    /\ copies = <<>>
    /\ logs = <<>>
    /\ cycles = 0

\* The recorder's stand-alone client has made no call.
RecorderAtRest ==
    /\ client = "idle"
    /\ lastCall = "none"
    /\ now = 0
    /\ recordingStart = 0
    /\ returned = [kind |-> "none", audio |-> <<>>, sample_rate |-> 0, duration |-> <<0, 0>>]
    /\ started = FALSE
    /\ accepted = <<>>

\* The application before the first key press, with media control out of
\* the way, and the bridge and the recorder idle.
AppAtRest ==
    /\ cfgPause = "off"
    /\ winrt = FALSE
    /\ available = "none"
    /\ state = "idle"
    /\ presses = 0
    /\ threads = <<>>
    /\ recording = FALSE
    /\ audioData = <<>>
    /\ stream = 0
    /\ openStreams = {}
    /\ delivered = 0
    /\ wasMediaPlaying = FALSE
    /\ media = "paused"
    /\ abandoned = [op \in {"pause", "play"} |-> 0]
    /\ owed = 0
    /\ recSince = 0
    /\ caller = "out"
    /\ clock = 0
    /\ workers = <<>>
    /\ outcome = "none"
    /\ answer = "none"
    /\ sampleRate = 1
    /\ RecorderAtRest
    /\ CycleAtRest

Init ==
    /\ cfgPause \in ConfigPauseValues
    /\ winrt \in BOOLEAN
    /\ available = "none"
    /\ state = "idle"
    /\ presses = 0
    /\ threads = <<>>
    /\ recording = FALSE
    /\ audioData = <<>>
    /\ stream = 0
    /\ openStreams = {}
    /\ delivered = 0
    /\ wasMediaPlaying = FALSE
    /\ media \in {"playing", "paused"}
    /\ abandoned = [op \in ActingOps |-> 0]
    /\ owed = 0
    /\ recSince = 0
    /\ caller = "out"
    /\ clock = 0
    /\ workers = <<>>
    /\ outcome = "none"
    /\ answer = "none"
    /\ sampleRate = 1
    /\ RecorderAtRest
    /\ CycleAtRest
    /\ ExtrasAtRest

\* One step of handler thread t.
ThreadStep(t) ==
    /\ t \in DOMAIN threads
    /\ \/ StartBegin(t) \/ StartQueryReturn(t) \/ StartCheck(t) \/ StartPauseReturn(t)
       \/ StartRecLock(t) \/ StartOpen(t) \/ StartExcept(t) \/ StartExceptCheck(t)
       \/ StartPlayReturn(t)
       \/ StopLock(t) \/ StopTest(t) \/ StopClose(t) \/ StopNull(t) \/ StopCollect(t)
       \/ StopResume(t) \/ StopPlayReturn(t) \/ StopBranch(t) \/ StopFinally(t)

Next ==
    \/ Press
    \/ \E t \in DOMAIN threads : StartBegin(t)
    \/ \E t \in DOMAIN threads : StartQueryReturn(t)
    \/ \E t \in DOMAIN threads : StartCheck(t)
    \/ \E t \in DOMAIN threads : StartPauseReturn(t)
    \/ \E t \in DOMAIN threads : StartRecLock(t)
    \/ \E t \in DOMAIN threads : StartOpen(t)
    \/ \E t \in DOMAIN threads : StartExcept(t)
    \/ \E t \in DOMAIN threads : StartExceptCheck(t)
    \/ \E t \in DOMAIN threads : StartPlayReturn(t)
    \/ \E t \in DOMAIN threads : StopLock(t)
    \/ \E t \in DOMAIN threads : StopTest(t)
    \/ \E t \in DOMAIN threads : StopClose(t)
    \/ \E t \in DOMAIN threads : StopNull(t)
    \/ \E t \in DOMAIN threads : StopCollect(t)
    \/ \E t \in DOMAIN threads : StopResume(t)
    \/ \E t \in DOMAIN threads : StopPlayReturn(t)
    \/ \E t \in DOMAIN threads : StopBranch(t)
    \/ \E t \in DOMAIN threads : StopFinally(t)
    \/ \E t \in DOMAIN threads : WorkerFinish(t)
    \/ \E op \in ActingOps : AbandonedFinish(op)
    \/ \E s \in openStreams : AudioCallback(s)

Spec == Init /\ [][Next]_vars

\* Handler threads are scheduled: a thread that can take a step eventually takes
\* it.  Nothing is assumed of key presses, of the audio driver or of the bridge
\* workers (an asynchronous operation may never complete).
FairSpec == Spec /\ \A t \in Tids : WF_vars(ThreadStep(t))

\* The application with the option off and media control out of the way, and
\* MurmurApp.stop() called at any moment (SpecShutdown).
InitShutdown ==
    /\ AppAtRest
    /\ ExtrasAtRest

NextShutdown ==
    \/ Press
    \/ \E t \in DOMAIN threads : StartBegin(t)
    \/ \E t \in DOMAIN threads : StartRecLock(t)
    \/ \E t \in DOMAIN threads : StartOpen(t)
    \/ \E t \in DOMAIN threads : StartExcept(t)
    \/ \E t \in DOMAIN threads : StartExceptCheck(t)
    \/ \E t \in DOMAIN threads : StopLock(t)
    \/ \E t \in DOMAIN threads : StopTest(t)
    \/ \E t \in DOMAIN threads : StopClose(t)
    \/ \E t \in DOMAIN threads : StopNull(t)
    \/ \E t \in DOMAIN threads : StopCollect(t)
    \/ \E t \in DOMAIN threads : StopResume(t)
    \/ \E t \in DOMAIN threads : StopBranch(t)
    \/ \E t \in DOMAIN threads : StopFinally(t)
    \/ \E s \in openStreams : AudioCallback(s)
    \/ AppStop
    \/ AppStopCheck
    \/ AppStopLock
    \/ AppStopTest
    \/ AppStopClose
    \/ AppStopNull
    \/ AppStopCollect

SpecShutdown == InitShutdown /\ [][NextShutdown]_vars

\* ------------------------------------------- MediaController._run_async alone
\* The bridge in detail, one caller at a time: the caller starts a worker
\* thread that runs the coroutine on a fresh event loop, joins it for at most
\* JoinTimeout seconds, and returns by one of three return statements.

\* thread.join(timeout=5)
JoinTimeout == 5

\* Calls made to the bridge over the whole run.
MaxCalls == 2

\* What the coroutine given to the bridge does: it returns a value, it raises, or
\* it never completes.
Coros == {"returns", "raises", "never"}

\* Values a media coroutine returns.
CoroValues == {"True", "False"}

\* The worker of the call in progress (or of the last call).
Cur == Len(workers)

\* The worker is alive (thread.is_alive()).
IsAlive(i) == workers[i].status = "running"

\* _run_async up to thread.start(): fresh result and exception cells, a new
\* worker thread running coro_func() on its own event loop.
BridgeCall ==
    /\ caller \in {"out", "back"}
    /\ Len(workers) < MaxCalls
    /\ \E c \in Coros :
         workers' = Append(workers,
            [coro |-> c, status |-> "running", result |-> "None", exception |-> FALSE])
    /\ caller' = "join"
    /\ clock' = 0
    /\ outcome' = "none"
    /\ answer' = "none"
    /\ UNCHANGED nonBridge

\* run_in_thread of worker i comes to its end: result[0] is assigned, or the
\* exception is caught and stored.  Only a coroutine that completes gets here;
\* the worker of an abandoned call writes the cells of its own call.
WorkerComplete(i) ==
    /\ IsAlive(i)
    /\ workers[i].coro # "never"
    /\ IF workers[i].coro = "returns"
       THEN \E v \in CoroValues :
              workers' = [workers EXCEPT ![i].status = "returned", ![i].result = v]
       ELSE workers' = [workers EXCEPT ![i].status = "raised", ![i].exception = TRUE]
    /\ UNCHANGED <<caller, clock, outcome, answer>> /\ UNCHANGED nonBridge

\* A second passes while the caller is blocked in join.
Tick ==
    /\ caller = "join"
    /\ clock < JoinTimeout
    /\ clock' = clock + 1
    /\ UNCHANGED <<caller, workers, outcome, answer>> /\ UNCHANGED nonBridge

\* Mutant of JoinReturn: thread.join() without a timeout.
JoinReturnNoTimeout ==
    /\ caller = "join"
    /\ ~IsAlive(Cur)
    /\ caller' = "alive"
    /\ UNCHANGED <<clock, workers, outcome, answer>> /\ UNCHANGED nonBridge

\* thread.join(timeout=5) returns: the worker has ended, or the timeout elapsed.
JoinReturn ==
    /\ caller = "join"
    /\ ~IsAlive(Cur) \/ clock = JoinTimeout
    /\ caller' = "alive"
    /\ UNCHANGED <<clock, workers, outcome, answer>> /\ UNCHANGED nonBridge

\* What the public method makes of the value _run_async returned
\* (media_control.py:195, 212, 229): `result if result is not None else False`.
NoneToFalse(r) == IF r = "True" THEN "True" ELSE "False"

\* Mutant of BridgeReturn: the exception stored by the worker is raised again in
\* the caller instead of being turned into None.
BridgeReturnReraise ==
    /\ caller = "alive"
    /\ outcome' = IF IsAlive(Cur) THEN "timeout"
                  ELSE IF workers[Cur].exception THEN "raised"
                  ELSE workers[Cur].result
    /\ answer' = IF outcome' = "raised" THEN "raised" ELSE NoneToFalse(outcome')
    /\ caller' = "back"
    /\ UNCHANGED <<clock, workers>> /\ UNCHANGED nonBridge

\* The three returns: the worker is still alive (None, "Operation timed out"),
\* the worker stored an exception (None, "Thread exception"), else result[0].
\* Nothing is done to the worker.  The public method that made the call maps
\* None to False and returns.
BridgeReturn ==
    /\ caller = "alive"
    /\ outcome' = IF IsAlive(Cur) THEN "timeout"
                  ELSE IF workers[Cur].exception THEN "failure"
                  ELSE workers[Cur].result
    /\ answer' = NoneToFalse(IF outcome' \in {"timeout", "failure"} THEN "None" ELSE outcome')
    /\ caller' = "back"
    /\ UNCHANGED <<clock, workers>> /\ UNCHANGED nonBridge

InitBridge ==
    /\ cfgPause = "off"
    /\ winrt = FALSE
    /\ available = "none"
    /\ state = "idle"
    /\ presses = 0
    /\ threads = <<>>
    /\ recording = FALSE
    /\ audioData = <<>>
    /\ stream = 0
    /\ openStreams = {}
    /\ delivered = 0
    /\ wasMediaPlaying = FALSE
    /\ media = "paused"
    /\ abandoned = [op \in ActingOps |-> 0]
    /\ owed = 0
    /\ recSince = 0
    /\ caller = "out"
    /\ clock = 0
    /\ workers = <<>>
    /\ outcome = "none"
    /\ answer = "none"
    /\ sampleRate = 1
    /\ RecorderAtRest
    /\ CycleAtRest
    /\ ExtrasAtRest

NextBridge ==
    \/ BridgeCall
    \/ \E i \in DOMAIN workers : WorkerComplete(i)
    \/ Tick
    \/ JoinReturn
    \/ BridgeReturn

SpecBridge == InitBridge /\ [][NextBridge]_vars

\* The caller's thread is scheduled and time passes.  Nothing is assumed of the
\* coroutine: a worker may stay alive for ever.
FairSpecBridge ==
    SpecBridge /\ WF_vars(Tick) /\ WF_vars(JoinReturn) /\ WF_vars(BridgeReturn)

\* ------------------------------------------------ AudioRecorder on its own
\* The recorder driven by one client that calls start_recording() and
\* stop_recording() one after the other, with the audio driver delivering blocks
\* in between.  A block is [n |-> arrival number, size |-> frames, status |->
\* whether the driver flagged it]; a sample of a buffer is the arrival number
\* of the block it came from.

\* Calls the client makes over the whole run.
MaxRecCalls == 4

\* Blocks the driver delivers over the whole run.
MaxChunks == 2

\* Frames in a delivered block.
BlockSizes == {1, 2}

\* config.get("sample_rate", 16000), in frames per second.
SampleRates == {1, 2}

RECURSIVE Samples(_)
\* np.concatenate(self._audio_data, axis=0).flatten()
Samples(blocks) ==
    IF blocks = <<>> THEN <<>>
    ELSE [i \in 1..Head(blocks).size |-> Head(blocks).n] \o Samples(Tail(blocks))

RECURSIVE TotalSize(_)
\* s1 + ... + sN
TotalSize(blocks) ==
    IF blocks = <<>> THEN 0 ELSE Head(blocks).size + TotalSize(Tail(blocks))

\* What a call returns: None, an exception, or an AudioData.  The duration
\* len(audio) / self.sample_rate is kept as the fraction <<numerator, denominator>>.
NoData == [kind |-> "none", audio |-> <<>>, sample_rate |-> 0, duration |-> <<0, 0>>]

Raised == [NoData EXCEPT !.kind = "raised"]

Pending == [NoData EXCEPT !.kind = "pending"]

AudioData(audio) ==
    [kind |-> "data", audio |-> audio, sample_rate |-> sampleRate,
     duration |-> <<Len(audio), sampleRate>>]

\* Mutant of RecStartLock: start_recording() without its re-entrancy guard.
RecStartLockNoGuard ==
    /\ client = "idle"
    /\ now < MaxRecCalls
    /\ now' = now + 1
    /\ lastCall' = "start"
    /\ recording' = TRUE
    /\ audioData' = <<>>
    /\ recordingStart' = now'
    /\ accepted' = <<>>
    /\ client' = "start_open"
    /\ returned' = Pending
    /\ UNCHANGED <<stream, openStreams, delivered, sampleRate, started>>
    /\ UNCHANGED nonRecorder

\* start_recording(), audio.py:39-45: under the lock, return if already
\* recording, else set the flag, drop the blocks and note the time.
RecStartLock ==
    /\ client = "idle"
    /\ now < MaxRecCalls
    /\ now' = now + 1
    /\ lastCall' = "start"
    /\ IF recording
       THEN /\ client' = "idle"
            /\ returned' = NoData
            /\ UNCHANGED <<recording, audioData, recordingStart, accepted>>
       ELSE /\ recording' = TRUE
            /\ audioData' = <<>>
            /\ recordingStart' = now'
            /\ accepted' = <<>>
            /\ client' = "start_open"
            /\ returned' = Pending
    /\ UNCHANGED <<stream, openStreams, delivered, sampleRate, started>>
    /\ UNCHANGED nonRecorder

\* start_recording(), audio.py:47-54: the stream is created and started, or
\* sounddevice raises and the exception leaves start_recording().
RecStartOpen ==
    /\ client = "start_open"
    /\ \E ok \in BOOLEAN :
         IF ok
         THEN /\ stream' = now
              /\ openStreams' = openStreams \cup {now}
              /\ started' = TRUE
              /\ returned' = NoData
         ELSE /\ returned' = Raised
              /\ UNCHANGED <<stream, openStreams, started>>
    /\ client' = "idle"
    /\ UNCHANGED <<lastCall, now, recording, audioData, recordingStart, delivered,
                   sampleRate, accepted>>
    /\ UNCHANGED nonRecorder

\* stop_recording(), audio.py:63-71: under the lock, return None if not
\* recording, else clear the flag; then stop, close and forget the stream.
RecStopBegin ==
    /\ client = "idle"
    /\ now < MaxRecCalls
    /\ now' = now + 1
    /\ lastCall' = "stop"
    /\ started' = FALSE
    /\ IF ~recording
       THEN /\ client' = "idle"
            /\ returned' = NoData
            /\ UNCHANGED <<recording, stream, openStreams>>
       ELSE /\ recording' = FALSE
            /\ stream' = 0
            /\ openStreams' = openStreams \ {stream}
            /\ client' = "stop_collect"
            /\ returned' = Pending
    /\ UNCHANGED <<audioData, recordingStart, delivered, sampleRate, accepted>>
    /\ UNCHANGED nonRecorder

\* stop_recording(), audio.py:73-80: under the lock, None if there are no
\* blocks, else the blocks concatenated as an AudioData, and the list emptied.
RecStopCollect ==
    /\ client = "stop_collect"
    /\ IF audioData = <<>>
       THEN /\ returned' = NoData
            /\ UNCHANGED audioData
       ELSE /\ returned' = AudioData(Samples(audioData))
            /\ audioData' = <<>>
    /\ client' = "idle"
    /\ UNCHANGED <<lastCall, now, recording, stream, openStreams, recordingStart, delivered,
                   sampleRate, started, accepted>>
    /\ UNCHANGED nonRecorder

\* Mutant of RecCallback: a block that comes with a status flag is dropped.
RecCallbackDropOnStatus ==
    /\ openStreams # {}
    /\ delivered < MaxChunks
    /\ delivered' = delivered + 1
    /\ \E z \in BlockSizes, st \in BOOLEAN :
         LET b == [n |-> delivered + 1, size |-> z, status |-> st]
         IN  IF recording
             THEN /\ audioData' = IF st THEN audioData ELSE Append(audioData, b)
                  /\ accepted' = Append(accepted, b)
             ELSE UNCHANGED <<audioData, accepted>>
    /\ UNCHANGED <<client, lastCall, now, recording, stream, openStreams, recordingStart,
                   sampleRate, returned, started>>
    /\ UNCHANGED nonRecorder

\* _audio_callback, audio.py:87-97, on the driver's thread while a stream is
\* open: the status is ignored; under the lock the block is appended if the
\* recorder is recording and dropped otherwise.
RecCallback ==
    /\ openStreams # {}
    /\ delivered < MaxChunks
    /\ delivered' = delivered + 1
    /\ \E z \in BlockSizes, st \in BOOLEAN :
         LET b == [n |-> delivered + 1, size |-> z, status |-> st]
         IN  IF recording
             THEN /\ audioData' = Append(audioData, b)
                  /\ accepted' = Append(accepted, b)
             ELSE UNCHANGED <<audioData, accepted>>
    /\ UNCHANGED <<client, lastCall, now, recording, stream, openStreams, recordingStart,
                   sampleRate, returned, started>>
    /\ UNCHANGED nonRecorder

\* AudioRecorder.__init__ (audio.py:26-35), for each sample rate.
InitRecorder ==
    /\ cfgPause = "off"
    /\ winrt = FALSE
    /\ available = "none"
    /\ state = "idle"
    /\ presses = 0
    /\ threads = <<>>
    /\ recording = FALSE
    /\ audioData = <<>>
    /\ stream = 0
    /\ openStreams = {}
    /\ delivered = 0
    /\ wasMediaPlaying = FALSE
    /\ media = "paused"
    /\ abandoned = [op \in ActingOps |-> 0]
    /\ owed = 0
    /\ recSince = 0
    /\ caller = "out"
    /\ clock = 0
    /\ workers = <<>>
    /\ outcome = "none"
    /\ answer = "none"
    /\ sampleRate \in SampleRates
    /\ RecorderAtRest
    /\ CycleAtRest
    /\ ExtrasAtRest

NextRecorder ==
    \/ RecStartLock
    \/ RecStartOpen
    \/ RecStopBegin
    \/ RecStopCollect
    \/ RecCallback

SpecRecorder == InitRecorder /\ [][NextRecorder]_vars

\* ------------------------------------ the stop handler's post-processing
\* _on_recording_stop from main.py:149 and _process_audio, one handler at a
\* time, with every call of a collaborator recorded: transcribe() returns a
\* text, returns the empty string or raises; copy_to_clipboard() returns True or
\* False (clipboard.py:31-37 catches what pyperclip raises); logger.log() writes
\* or fails and returns either way (logger.py:79-107 catches what it raises).

\* Cycles begun over the whole run.
MaxCycles == 4

\* Non-empty texts transcribe() returns.
Texts == {"Hi.", "Ok."}

\* A call of the notifier: notify_error() is the error kind, every other
\* notify call the info kind.
Note(kind, what) == [kind |-> kind, what |-> what]

\* A key press while Recording has dispatched the stop handler, which has
\* stopped capture and made its resume attempt (main.py:135-147).
CycleBegin ==
    /\ procPc \in {"out", "done"}
    /\ cycles < MaxCycles
    /\ cycles' = cycles + 1
    /\ \E a \in {"None", "data"} : audioIn' = a
    /\ SetState("processing")
    /\ procPc' = "branch"
    /\ text' = "pending"
    /\ transcribes' = 0
    /\ notes' = <<>>
    /\ copies' = <<>>
    /\ logs' = <<>>
    /\ UNCHANGED nonCycle

\* Mutant of CycleBranch: _process_audio is called whatever stop_recording()
\* returned.
CycleBranchNoTest ==
    /\ procPc = "branch"
    /\ SetState("processing")
    /\ notes' = Append(notes, Note("info", "recording_stopped"))
    /\ procPc' = "transcribe"
    /\ UNCHANGED <<audioIn, text, transcribes, copies, logs, cycles>>
    /\ UNCHANGED nonCycle

\* main.py:149-161: without audio the handler calls set_idle() and returns;
\* with audio _process_audio calls set_processing() and notifies.
CycleBranch ==
    /\ procPc = "branch"
    /\ IF audioIn = "None"
       THEN /\ SetState("idle")
            /\ procPc' = "done"
            /\ UNCHANGED notes
       ELSE /\ SetState("processing")
            /\ notes' = Append(notes, Note("info", "recording_stopped"))
            /\ procPc' = "transcribe"
    /\ UNCHANGED <<audioIn, text, transcribes, copies, logs, cycles>>
    /\ UNCHANGED nonCycle

\* Where the handler goes with the result r of transcribe().
AfterTranscribe(r) ==
    IF r = "raised" THEN "except" ELSE IF r = "" THEN "nospeech" ELSE "copy"

\* Mutant of CycleTranscribe: no except clause; the exception goes through the
\* finally clause and out of the handler.
CycleTranscribeUncaught ==
    /\ procPc = "transcribe"
    /\ transcribes' = transcribes + 1
    /\ \E r \in Texts \cup {"", "raised"} :
         /\ text' = r
         /\ procPc' = IF r = "raised" THEN "finally_raising" ELSE AfterTranscribe(r)
    /\ UNCHANGED <<state, recSince, audioIn, notes, copies, logs, cycles>>
    /\ UNCHANGED nonCycle

\* main.py:163-169: transcribe() inside the try.
CycleTranscribe ==
    /\ procPc = "transcribe"
    /\ transcribes' = transcribes + 1
    /\ \E r \in Texts \cup {"", "raised"} :
         /\ text' = r
         /\ procPc' = AfterTranscribe(r)
    /\ UNCHANGED <<state, recSince, audioIn, notes, copies, logs, cycles>>
    /\ UNCHANGED nonCycle

\* main.py:171-179 without the logger: the copy, then the notification of
\* success, or the error notification and nothing more.
CycleCopy ==
    /\ procPc = "copy"
    /\ \E ok \in BOOLEAN :
         /\ copies' = Append(copies, [text |-> text, ok |-> ok])
         /\ IF ok
            THEN /\ notes' = Append(notes, Note("info", "complete"))
                 /\ procPc' = "log"
            ELSE /\ notes' = Append(notes, Note("error", "copy"))
                 /\ procPc' = "finally"
    /\ UNCHANGED <<state, recSince, audioIn, text, transcribes, logs, cycles>>
    /\ UNCHANGED nonCycle

\* main.py:176: logger.log(), which prints its own failure and returns None.
CycleLog ==
    /\ procPc = "log"
    /\ \E ok \in BOOLEAN : logs' = Append(logs, [text |-> text, ok |-> ok])
    /\ procPc' = "finally"
    /\ UNCHANGED <<state, recSince, audioIn, text, transcribes, notes, copies, cycles>>
    /\ UNCHANGED nonCycle

\* Mutant of CycleNoSpeech: the empty result is reported with notify_error().
CycleNoSpeechAsError ==
    /\ procPc = "nospeech"
    /\ notes' = Append(notes, Note("error", "no_speech"))
    /\ procPc' = "finally"
    /\ UNCHANGED <<state, recSince, audioIn, text, transcribes, copies, logs, cycles>>
    /\ UNCHANGED nonCycle

\* main.py:180-182: notify("Murmur", "No speech detected.").
CycleNoSpeech ==
    /\ procPc = "nospeech"
    /\ notes' = Append(notes, Note("info", "no_speech"))
    /\ procPc' = "finally"
    /\ UNCHANGED <<state, recSince, audioIn, text, transcribes, copies, logs, cycles>>
    /\ UNCHANGED nonCycle

\* main.py:184-186: notify_error("Transcription failed: ...").
CycleExcept ==
    /\ procPc = "except"
    /\ notes' = Append(notes, Note("error", "transcription"))
    /\ procPc' = "finally"
    /\ UNCHANGED <<state, recSince, audioIn, text, transcribes, copies, logs, cycles>>
    /\ UNCHANGED nonCycle

\* main.py:188-190: the finally clause calls set_idle(); the handler returns,
\* or ends on the exception that is still in flight.
CycleFinally ==
    /\ procPc \in {"finally", "finally_raising"}
    /\ SetState("idle")
    /\ procPc' = IF procPc = "finally" THEN "done" ELSE "crashed"
    /\ UNCHANGED <<audioIn, text, transcribes, notes, copies, logs, cycles>>
    /\ UNCHANGED nonCycle

InitCycle ==
    /\ cfgPause = "off"
    /\ winrt = FALSE
    /\ available = "none"
    /\ state = "idle"
    /\ presses = 0
    /\ threads = <<>>
    /\ recording = FALSE
    /\ audioData = <<>>
    /\ stream = 0
    /\ openStreams = {}
    /\ delivered = 0
    /\ wasMediaPlaying = FALSE
    /\ media = "paused"
    /\ abandoned = [op \in ActingOps |-> 0]
    /\ owed = 0
    /\ recSince = 0
    /\ caller = "out"
    /\ clock = 0
    /\ workers = <<>>
    /\ outcome = "none"
    /\ answer = "none"
    /\ sampleRate = 1
    /\ RecorderAtRest
    /\ CycleAtRest
    /\ ExtrasAtRest

NextCycle ==
    \/ CycleBegin
    \/ CycleBranch
    \/ CycleTranscribe
    \/ CycleCopy
    \/ CycleLog
    \/ CycleNoSpeech
    \/ CycleExcept
    \/ CycleFinally

SpecCycle == InitCycle /\ [][NextCycle]_vars

\* ------------------------------------- MediaController's methods on their own
\* is_available(), is_media_playing(), pause() and play() called by the
\* threads of MThreads, with is_available() in its steps: the test of the
\* cached value (media_control.py:29), the import (32-42) and the return.

\* Calls of the MediaController over the whole run.
MaxMediaCalls == 3

MediaOps == {"is_available", "is_media_playing", "pause", "play"}

\* What the coroutine of a call meets: request_async() gives no manager, the
\* manager has no current session, the session has no playback info, a winrt
\* call raises, the coroutine does not complete within the join timeout, or
\* the operation completes with True or with False.
MediaEnvs == {"no_manager", "no_session", "no_info", "raises", "timeout", "true", "false"}

\* What the coroutine of operation op returns (media_control.py:85-181):
\* False when the manager or the session is missing, or (the query only) the
\* playback info; False from the except clause when a call raises; else the
\* status test or the result of try_pause_async() / try_play_async().  pause
\* and play never ask for the playback info.
CoroReturn(op, env) ==
    IF env \in {"no_manager", "no_session", "raises"} THEN "False"
    ELSE IF env = "no_info" /\ op = "is_media_playing" THEN "False"
    ELSE IF env = "false" THEN "False"
    ELSE "True"

\* What _run_async returns for the call (media_control.py:75-83): None when the
\* worker is still alive after the join, else the coroutine's value.
RunAsync(op, env) == IF env = "timeout" THEN "None" ELSE CoroReturn(op, env)

\* A thread calls one of the public methods; each begins with is_available().
MediaCall(t) ==
    /\ mthreads[t].pc = "idle"
    /\ mcalls < MaxMediaCalls
    /\ mcalls' = mcalls + 1
    /\ \E op \in MediaOps :
         mthreads' = [mthreads EXCEPT ![t] = [pc |-> "test", op |-> op, env |-> "none",
                                              ret |-> "none"]]
    /\ UNCHANGED <<available, probes, bridgeThreads>>
    /\ UNCHANGED nonMedia

\* media_control.py:29-30: `if self._available is not None`, with no lock.
AvailTest(t) ==
    /\ mthreads[t].pc = "test"
    /\ mthreads' = [mthreads EXCEPT ![t].pc = IF available = "none" THEN "probe" ELSE "avail"]
    /\ UNCHANGED <<available, probes, bridgeThreads, mcalls>>
    /\ UNCHANGED nonMedia

\* media_control.py:32-42: the import of the winrt modules, and the assignment
\* of its outcome to _available.
AvailProbe(t) ==
    /\ mthreads[t].pc = "probe"
    /\ probes' = probes + 1
    /\ available' = IF winrt THEN "yes" ELSE "no"
    /\ mthreads' = [mthreads EXCEPT ![t].pc = "avail"]
    /\ UNCHANGED <<bridgeThreads, mcalls>>
    /\ UNCHANGED nonMedia

\* Mutant of AvailReturn: the operation goes to the bridge without looking at
\* what is_available() returned.
AvailReturnNoGuard(t) ==
    /\ mthreads[t].pc = "avail"
    /\ IF mthreads[t].op = "is_available"
       THEN /\ mthreads' = [mthreads EXCEPT ![t].pc = "idle",
                                            ![t].ret = IF available = "yes" THEN "True" ELSE "False"]
            /\ UNCHANGED bridgeThreads
       ELSE /\ mthreads' = [mthreads EXCEPT ![t].pc = "bridge"]
            /\ bridgeThreads' = bridgeThreads + 1
    /\ UNCHANGED <<available, probes, mcalls>>
    /\ UNCHANGED nonMedia

\* is_available() returns self._available (media_control.py:30, 44).  The
\* caller is is_available() itself, or an operation that returns False when
\* the capability is missing (190-191, 207-208, 224-225) and else hands its
\* coroutine to _run_async, which starts a worker thread (71-72).
AvailReturn(t) ==
    /\ mthreads[t].pc = "avail"
    /\ IF mthreads[t].op = "is_available"
       THEN /\ mthreads' = [mthreads EXCEPT ![t].pc = "idle",
                                            ![t].ret = IF available = "yes" THEN "True" ELSE "False"]
            /\ UNCHANGED bridgeThreads
       ELSE IF available # "yes"
       THEN /\ mthreads' = [mthreads EXCEPT ![t].pc = "idle", ![t].ret = "False"]
            /\ UNCHANGED bridgeThreads
       ELSE /\ mthreads' = [mthreads EXCEPT ![t].pc = "bridge"]
            /\ bridgeThreads' = bridgeThreads + 1
    /\ UNCHANGED <<available, probes, mcalls>>
    /\ UNCHANGED nonMedia

\* media_control.py:193-198, 210-215, 227-232: _run_async returns and the
\* method returns `result if result is not None else False`.
MediaReturn(t) ==
    /\ mthreads[t].pc = "bridge"
    /\ \E env \in MediaEnvs :
         mthreads' = [mthreads EXCEPT ![t].pc = "idle", ![t].env = env,
                                      ![t].ret = NoneToFalse(RunAsync(mthreads[t].op, env))]
    /\ UNCHANGED <<available, probes, bridgeThreads, mcalls>>
    /\ UNCHANGED nonMedia

InitMedia ==
    /\ cfgPause = "off"
    /\ winrt \in BOOLEAN
    /\ available = "none"
    /\ state = "idle"
    /\ presses = 0
    /\ threads = <<>>
    /\ recording = FALSE
    /\ audioData = <<>>
    /\ stream = 0
    /\ openStreams = {}
    /\ delivered = 0
    /\ wasMediaPlaying = FALSE
    /\ media = "paused"
    /\ abandoned = [op \in ActingOps |-> 0]
    /\ owed = 0
    /\ recSince = 0
    /\ caller = "out"
    /\ clock = 0
    /\ workers = <<>>
    /\ outcome = "none"
    /\ answer = "none"
    /\ sampleRate = 1
    /\ RecorderAtRest
    /\ CycleAtRest
    /\ MediaAtRest
    /\ BindingAtRest
    /\ TextAtRest
    /\ LocksAtRest
    /\ stopPc = "running"

NextMedia ==
    \E t \in MThreads :
       \/ MediaCall(t)
       \/ AvailTest(t)
       \/ AvailProbe(t)
       \/ AvailReturn(t)
       \/ MediaReturn(t)

SpecMedia == InitMedia /\ [][NextMedia]_vars

\* ------------------------------------------------ hotkey registration alone
\* HotkeyManager.register, unregister and update_hotkey, and Config.set on the
\* "hotkey" entry, called one after the other.

\* Calls over the whole run.
MaxBindCalls == 6

\* HotkeyManager.unregister (hotkey.py:85-90) applied to the installed
\* hotkeys: keyboard.remove_hotkey() is given the combination the
\* configuration names now; when none is installed under that name it raises
\* and the bare except swallows it.
AfterUnregister ==
    IF hotkeyRegistered /\ bindings[cfgHotkey] > 0
    THEN [bindings EXCEPT ![cfgHotkey] = @ - 1]
    ELSE bindings

\* HotkeyManager.register (hotkey.py:63-81): unregister() when registered,
\* then keyboard.add_hotkey(self.config.hotkey, ...), which may raise; the
\* except clause returns False.
Register ==
    /\ bindCalls < MaxBindCalls
    /\ bindCalls' = bindCalls + 1
    /\ \E ok \in BOOLEAN :
         IF ok
         THEN /\ bindings' = [AfterUnregister EXCEPT ![cfgHotkey] = @ + 1]
              /\ hotkeyRegistered' = TRUE
              /\ bindRet' = [op |-> "register", arg |-> "none", ret |-> "True"]
         ELSE /\ bindings' = AfterUnregister
              /\ hotkeyRegistered' = FALSE
              /\ bindRet' = [op |-> "register", arg |-> "none", ret |-> "False"]
    /\ UNCHANGED cfgHotkey
    /\ UNCHANGED nonBinding

\* HotkeyManager.unregister (hotkey.py:83-90).
Unregister ==
    /\ bindCalls < MaxBindCalls
    /\ bindCalls' = bindCalls + 1
    /\ bindings' = AfterUnregister
    /\ hotkeyRegistered' = FALSE
    /\ bindRet' = [op |-> "unregister", arg |-> "none", ret |-> "None"]
    /\ UNCHANGED cfgHotkey
    /\ UNCHANGED nonBinding

\* HotkeyManager.update_hotkey (hotkey.py:141-152): unregister(), then
\* `self.config.hotkey = new_hotkey`.  Config.hotkey is a property with a
\* getter only (config.py:72-75), so the assignment raises AttributeError;
\* nothing catches it, and register() at hotkey.py:152 is not reached.
UpdateHotkey ==
    /\ bindCalls < MaxBindCalls
    /\ bindCalls' = bindCalls + 1
    /\ \E new \in Keys :
         /\ bindings' = AfterUnregister
         /\ hotkeyRegistered' = FALSE
         /\ bindRet' = [op |-> "update_hotkey", arg |-> new, ret |-> "raised"]
    /\ UNCHANGED cfgHotkey
    /\ UNCHANGED nonBinding

\* Config.set("hotkey", k) (config.py:63-66), as SettingsWindow._save calls it
\* (settings_gui.py:109).
ConfigSet ==
    /\ bindCalls < MaxBindCalls
    /\ bindCalls' = bindCalls + 1
    /\ \E k \in Keys :
         /\ cfgHotkey' = k
         /\ bindRet' = [op |-> "set", arg |-> k, ret |-> "None"]
    /\ UNCHANGED <<bindings, hotkeyRegistered>>
    /\ UNCHANGED nonBinding

InitBinding ==
    /\ AppAtRest
    /\ MediaAtRest
    /\ BindingAtRest
    /\ TextAtRest
    /\ LocksAtRest
    /\ stopPc = "running"

NextBinding ==
    \/ Register
    \/ Unregister
    \/ UpdateHotkey
    \/ ConfigSet

SpecBinding == InitBinding /\ [][NextBinding]_vars

\* --------------------------------------- from the speech model to the clipboard
\* One cycle with audio, from the result of the speech model to the clipboard:
\* Transcriber.transcribe's strip and _post_process (transcription.py:78-117),
\* computed on sequences of characters, then copy_to_clipboard and set_idle.

\* Length of the raw text.
MaxText == 4

\* The characters of a raw text: a lower-case and an upper-case letter, two
\* kinds of whitespace, a sentence-ending mark and another punctuation mark.
Chars == {"h", "W", " ", "\t", ".", ","}

\* \s of the regular expressions, and what str.strip() removes.
IsSpace(c) == c \in {" ", "\t"}

\* str.upper() on one character.
Upper(c) == IF c = "h" THEN "H" ELSE c

\* str.strip().
Strip(str) ==
    LET RECURSIVE LStrip(_)
        LStrip(q) == IF q # <<>> /\ IsSpace(Head(q)) THEN LStrip(Tail(q)) ELSE q
        RECURSIVE RStrip(_)
        RStrip(q) == IF q # <<>> /\ IsSpace(q[Len(q)])
                     THEN RStrip(SubSeq(q, 1, Len(q) - 1)) ELSE q
    IN  RStrip(LStrip(str))

\* Transcriber._fix_common_issues (transcription.py:106-117): three re.sub
\* passes, each scanning left to right over non-overlapping matches, then
\* strip().
FixCommonIssues(str) ==
    LET RECURSIVE Skip(_)
        Skip(q) == IF q # <<>> /\ IsSpace(Head(q)) THEN Skip(Tail(q)) ELSE q
        \* re.sub(r'\s+', ' ', text)
        RECURSIVE Spaces(_)
        Spaces(q) == IF q = <<>> THEN <<>>
                     ELSE IF IsSpace(Head(q)) THEN <<" ">> \o Spaces(Skip(q))
                     ELSE <<Head(q)>> \o Spaces(Tail(q))
        \* re.sub(r'\s+([.,!?;:])', r'\1', text)
        RECURSIVE Punct(_)
        Punct(q) == IF q = <<>> THEN <<>>
                    ELSE IF IsSpace(Head(q)) /\ Skip(q) # <<>> /\ Head(Skip(q)) \in {".", ","}
                    THEN <<Head(Skip(q))>> \o Punct(Tail(Skip(q)))
                    ELSE <<Head(q)>> \o Punct(Tail(q))
        \* re.sub(r'([.!?])\s+([a-z])', lambda m: m.group(1) + ' ' + m.group(2).upper(), text)
        RECURSIVE Caps(_)
        Caps(q) == IF q = <<>> THEN <<>>
                   ELSE IF /\ Head(q) = "."
                           /\ Len(q) >= 3
                           /\ IsSpace(q[2])
                           /\ Skip(Tail(q)) # <<>>
                           /\ Head(Skip(Tail(q))) = "h"
                   THEN <<".", " ", "H">> \o Caps(Tail(Skip(Tail(q))))
                   ELSE <<Head(q)>> \o Caps(Tail(q))
    IN  Strip(Caps(Punct(Spaces(str))))

\* Mutant of PostProcess: no ending punctuation is added.
PostProcessNoEnding(str) ==
    IF str = <<>> THEN str
    ELSE FixCommonIssues(<<Upper(Head(str))>> \o Tail(str))

\* Transcriber._post_process (transcription.py:91-104): the empty text as it
\* is; else the first character upper-cased, a "." appended unless the text
\* ends in . ! or ?, then _fix_common_issues.
PostProcess(str) ==
    IF str = <<>> THEN str
    ELSE LET cap == <<Upper(Head(str))>> \o Tail(str)
         IN  FixCommonIssues(IF cap[Len(cap)] # "." THEN Append(cap, ".") ELSE cap)

\* The key presses of a cycle have been handled and the stop handler has
\* audio: _process_audio calls set_processing() (main.py:158).
TextBegin ==
    /\ textPc = "out"
    /\ SetState("processing")
    /\ textPc' = "transcribe"
    /\ UNCHANGED <<rawText, cooked, sink>>
    /\ UNCHANGED nonText

\* transcription.py:78-83 and main.py:166-169: result["text"].strip(), then
\* _post_process; an empty text goes to the "No speech detected" branch.
TextTranscribe ==
    /\ textPc = "transcribe"
    /\ cooked' = PostProcess(Strip(rawText))
    /\ textPc' = IF cooked' = <<>> THEN "finally" ELSE "copy"
    /\ UNCHANGED <<state, recSince, rawText, sink>>
    /\ UNCHANGED nonText

\* main.py:171-179, clipboard.py:18-37: copy_to_clipboard(text) puts the text
\* on the clipboard, or fails and returns False.
TextCopy ==
    /\ textPc = "copy"
    /\ \E ok \in BOOLEAN : sink' = IF ok THEN Append(sink, cooked) ELSE sink
    /\ textPc' = "finally"
    /\ UNCHANGED <<state, recSince, rawText, cooked>>
    /\ UNCHANGED nonText

\* main.py:188-190: set_idle().
TextFinally ==
    /\ textPc = "finally"
    /\ SetState("idle")
    /\ textPc' = "done"
    /\ UNCHANGED <<rawText, cooked, sink>>
    /\ UNCHANGED nonText

InitText ==
    /\ AppAtRest
    /\ MediaAtRest
    /\ BindingAtRest
    /\ rawText \in UNION {[1..n -> Chars] : n \in 0..MaxText}
    /\ textPc = "out"
    /\ cooked = <<>>
    /\ sink = <<>>
    /\ LocksAtRest
    /\ stopPc = "running"

NextText ==
    \/ TextBegin
    \/ TextTranscribe
    \/ TextCopy
    \/ TextFinally

SpecText == InitText /\ [][NextText]_vars

\* ------------------------------------------------------ the two locks alone
\* The methods of HotkeyManager and of AudioRecorder as the sequences of their
\* accesses, with `with self._lock:` as an acquire and a release step.  A
\* thread is at step i of its method when it is about to take that step.  The
\* threads of one object run at a time (lgroup).

\* Calls each thread makes over the whole run.
MaxLockCalls == 2

\* A step: its kind, the step that follows (0 when the method returns) and the
\* step that follows when the test the step makes sends the method to its
\* early return.
S(k, nx, br) == [k |-> k, nx |-> nx, br |-> br]

\* Mutant of HotkeyPath: _on_hotkey_pressed keeps the lock after it has started
\* the callback thread.
HotkeyPathNoRelease(m) ==
    IF m = "press"
    THEN <<S("acquire", 2, 2), S("read_state", 3, 6), S("write_state", 4, 4),
           S("notify", 5, 5), S("spawn", 0, 0), S("release", 0, 0)>>
    ELSE IF m = "get_state"
    THEN <<S("read_state", 0, 0)>>
    ELSE <<S("acquire", 2, 2), S("write_state", 3, 3), S("notify", 4, 4), S("release", 0, 0)>>

\* hotkey.py:92-124.  _on_hotkey_pressed: the lock, the test of _state, and
\* unless the state is Processing _set_state (the assignment, then
\* _on_state_change) and threading.Thread(target=...).start().  set_idle and
\* set_processing: the lock around _set_state.  get_state: `return
\* self._state`, with no lock.
HotkeyPath(m) ==
    IF m = "press"
    THEN <<S("acquire", 2, 2), S("read_state", 3, 6), S("write_state", 4, 4),
           S("notify", 5, 5), S("spawn", 6, 6), S("release", 0, 0)>>
    ELSE IF m = "get_state"
    THEN <<S("read_state", 0, 0)>>
    ELSE <<S("acquire", 2, 2), S("write_state", 3, 3), S("notify", 4, 4), S("release", 0, 0)>>

\* Mutant of RecorderPath: stop_recording stops and closes the stream inside
\* its first `with self._lock:`.
RecorderPathStopHeld(m) ==
    IF m = "start_recording"
    THEN <<S("acquire", 2, 2), S("read_flag", 3, 6), S("write_flag", 4, 4),
           S("write_blocks", 5, 5), S("release", 7, 7), S("release", 0, 0),
           S("open_stream", 0, 0)>>
    ELSE IF m = "stop_recording"
    THEN <<S("acquire", 2, 2), S("read_flag", 3, 10), S("write_flag", 4, 4),
           S("stop_stream", 5, 5), S("release", 6, 6), S("acquire", 7, 7),
           S("read_blocks", 8, 8), S("write_blocks", 9, 9), S("release", 0, 0),
           S("release", 0, 0)>>
    ELSE IF m = "_audio_callback"
    THEN <<S("acquire", 2, 2), S("read_flag", 3, 4), S("write_blocks", 4, 4),
           S("release", 0, 0)>>
    ELSE <<S("acquire", 2, 2), S("read_flag", 3, 3), S("read_blocks", 4, 4),
           S("release", 0, 0)>>

\* audio.py:37-106.  start_recording: under the lock the test of _recording,
\* the flag, the reset of _audio_data; then, the lock released, the stream is
\* opened.  stop_recording: under the lock the test and the flag; the lock
\* released, the stream is stopped and closed; under the lock again the blocks
\* are read and cleared.  _audio_callback: under the lock the test and the
\* append.  get_recording_duration: under the lock the flag and the blocks.
RecorderPath(m) ==
    IF m = "start_recording"
    THEN <<S("acquire", 2, 2), S("read_flag", 3, 6), S("write_flag", 4, 4),
           S("write_blocks", 5, 5), S("release", 7, 7), S("release", 0, 0),
           S("open_stream", 0, 0)>>
    ELSE IF m = "stop_recording"
    THEN <<S("acquire", 2, 2), S("read_flag", 3, 10), S("write_flag", 4, 4),
           S("release", 5, 5), S("stop_stream", 6, 6), S("acquire", 7, 7),
           S("read_blocks", 8, 8), S("write_blocks", 9, 9), S("release", 0, 0),
           S("release", 0, 0)>>
    ELSE IF m = "_audio_callback"
    THEN <<S("acquire", 2, 2), S("read_flag", 3, 4), S("write_blocks", 4, 4),
           S("release", 0, 0)>>
    ELSE <<S("acquire", 2, 2), S("read_flag", 3, 3), S("read_blocks", 4, 4),
           S("release", 0, 0)>>

\* The object a thread works on, the methods it calls, and the step it is at.
Obj(t) == IF t \in {"client", "driver"} THEN "recorder" ELSE "hotkey"

MethodsOf(t) ==
    IF t = "dispatcher" THEN {"press"}
    ELSE IF t = "handler" THEN {"set_idle", "set_processing"}
    ELSE IF t = "reader" THEN {"get_state"}
    ELSE IF t = "client" THEN {"start_recording", "stop_recording", "get_recording_duration"}
    ELSE {"_audio_callback"}

StepAt(t) ==
    IF Obj(t) = "hotkey" THEN HotkeyPath(lthreads[t].meth)[lthreads[t].i]
    ELSE RecorderPath(lthreads[t].meth)[lthreads[t].i]

\* The test a method makes sends it to its early return: a key press in
\* Processing (hotkey.py:95-101), start_recording while recording
\* (audio.py:40), stop_recording and _audio_callback while not (64, 94).
EarlyReturn(m) ==
    IF m = "press" THEN state = "processing"
    ELSE IF m = "start_recording" THEN recording
    ELSE IF m \in {"stop_recording", "_audio_callback"} THEN ~recording
    ELSE FALSE

\* A thread calls a method of its object.  A callback thread exists once a key
\* press has started one.
LockCall(t) ==
    /\ Obj(t) = lgroup
    /\ lthreads[t].i = 0
    /\ lthreads[t].n < MaxLockCalls
    /\ (t = "handler") => spawned > 0
    /\ \E m \in MethodsOf(t) :
         lthreads' = [lthreads EXCEPT ![t] = [meth |-> m, i |-> 1, n |-> @.n + 1]]
    /\ UNCHANGED <<state, recSince, recording, lgroup, lockOwner, spawned>>
    /\ UNCHANGED nonLocks

\* A thread takes its next step.  Acquiring waits until the lock is free.
LockStep(t) ==
    /\ lthreads[t].i # 0
    /\ LET st == StepAt(t)
           m == lthreads[t].meth
       IN  /\ (st.k = "acquire") => lockOwner[Obj(t)] = "none"
           /\ lockOwner' = IF st.k = "acquire" THEN [lockOwner EXCEPT ![Obj(t)] = t]
                           ELSE IF st.k = "release" THEN [lockOwner EXCEPT ![Obj(t)] = "none"]
                           ELSE lockOwner
           /\ IF st.k = "write_state"
              THEN SetState(IF m = "set_idle" THEN "idle"
                            ELSE IF m = "set_processing" THEN "processing"
                            ELSE IF state = "idle" THEN "recording" ELSE "processing")
              ELSE UNCHANGED <<state, recSince>>
           /\ recording' = IF st.k = "write_flag" THEN m = "start_recording" ELSE recording
           /\ spawned' = IF st.k = "spawn" THEN spawned + 1 ELSE spawned
           /\ lthreads' = [lthreads EXCEPT ![t].i =
                              IF st.k \in {"read_state", "read_flag"} /\ EarlyReturn(m)
                              THEN st.br ELSE st.nx]
    /\ UNCHANGED lgroup
    /\ UNCHANGED nonLocks

InitLocks ==
    /\ AppAtRest
    /\ MediaAtRest
    /\ BindingAtRest
    /\ TextAtRest
    /\ lgroup \in {"hotkey", "recorder"}
    /\ lthreads = [t \in LThreads |-> [meth |-> "none", i |-> 0, n |-> 0]]
    /\ lockOwner = [o \in {"hotkey", "recorder"} |-> "none"]
    /\ spawned = 0
    /\ stopPc = "running"

NextLocks == \E t \in LThreads : LockCall(t) \/ LockStep(t)

SpecLocks == InitLocks /\ [][NextLocks]_vars

\* The dispatcher runs, and so does a thread while it holds a lock; a thread
\* that holds no lock may stay where it is for ever.
FairSpecLocks ==
    /\ SpecLocks
    /\ WF_vars(LockStep("dispatcher"))
    /\ \A t \in LThreads : WF_vars(lockOwner[Obj(t)] = t /\ LockStep(t))

\* ------------------------------------------------------------------ claims

PressStep == presses' = presses + 1

Ended_(t) == threads[t].pc \in {"done", "crashed"}

C2_PressWhileProcessingNoOp ==
    [][(PressStep /\ state = "processing") =>
          UNCHANGED <<cfgPause, winrt, available, state, threads, recording, audioData,
                      stream, openStreams, delivered, wasMediaPlaying, media, abandoned,
                      owed, recSince>>]_vars

\* C2 witness: more presses than dispatched handlers, and the state is Processing:
\* a press was delivered while Processing.
C2_Witness == state = "processing" /\ presses > Len(threads)

C4_AtMostOneStream == Cardinality(openStreams) <= 1

\* C5 as stated: once a start handler whose capture start failed has called
\* set_idle() and no other handler is in flight, the hotkey state is Idle and the
\* recorder is not recording.
C5_FailedStartRecoverable ==
    \A t \in DOMAIN threads :
        (/\ threads[t].pc = "s_exc_chk"
         /\ \A u \in DOMAIN threads \ {t} : Ended_(u))
        => (state = "idle" /\ ~recording)

\* C6 as stated: a start handler that invoked pause() and whose capture start
\* failed invokes play() when it reaches main.py:131, unless a play() has been
\* invoked since its pause().
C6_FailedStartResumes ==
    [][\A t \in DOMAIN threads :
          (threads[t].pc = "s_exc_chk" /\ threads[t].paused /\ threads'[t].pc # "s_exc_chk")
          => threads'[t].pc = "s_play_wait"]_vars

\* C7: a press while Idle moves to Recording and dispatches one start handler; a
\* press while Recording moves to Processing and dispatches one stop handler; the
\* state leaves Processing only to Idle and never by a key press.
C7_PressTransitions ==
    [][/\ (PressStep /\ state = "idle") =>
            (state' = "recording" /\ threads' = Append(threads, NewThread("start")))
       /\ (PressStep /\ state = "recording") =>
            (state' = "processing" /\ threads' = Append(threads, NewThread("stop")))
       /\ (state = "processing" /\ state' # "processing") =>
            (state' = "idle" /\ ~PressStep)]_vars

\* C7 witness: a cycle with both presses whose stop handler has left Processing
\* through set_idle().
C7_Witness ==
    /\ state = "idle"
    /\ Len(threads) = 2
    /\ threads[1].kind = "start" /\ threads[2].kind = "stop"
    /\ Ended_(1) /\ Ended_(2)
    /\ delivered > 0

\* C8 as stated: the was-playing flag is false whenever the state goes from Idle
\* to Recording.
C8_FlagFalseAtCycleStart ==
    [][(state = "idle" /\ state' = "recording") => ~wasMediaPlaying]_vars

\* C9 as stated: play() is invoked at most once for each pause() (never more
\* invocations of play() than of pause()), and the stop handler's resume attempt
\* leaves the flag false.
C9_ResumeOncePerPause ==
    [][/\ owed' >= 0
       /\ \A t \in DOMAIN threads :
             (threads[t].pc = "p_play_wait" /\ threads'[t].pc # "p_play_wait")
             => ~wasMediaPlaying']_vars

\* C10: a bridge call whose coroutine never completes comes back to its caller
\* (the caller does not wait for ever), it comes back by the timeout return and
\* only once the whole timeout has elapsed, and no step ends a worker whose
\* coroutine never completes: it is still alive when the caller is back.
C10_BridgeTimeout ==
    /\ (caller = "join" /\ workers[Cur].coro = "never") ~> (caller = "back")
    /\ [](caller = "back" /\ workers[Cur].coro = "never"
            => outcome = "timeout" /\ clock = JoinTimeout /\ IsAlive(Cur))
    /\ [][\A i \in DOMAIN workers :
            workers[i].coro = "never" => workers'[i] = workers[i]]_vars

\* C10 witness: a second call has timed out on a coroutine that never completes,
\* with the worker of an earlier timed-out call still alive.
C10_Witness ==
    /\ caller = "back"
    /\ outcome = "timeout"
    /\ Cur = 2
    /\ workers[2].coro = "never"
    /\ IsAlive(1)
    /\ IsAlive(2)

\* C11: every bridge call ends by exactly one of the three returns, and by the
\* one that matches the worker: timeout iff the worker is still alive, failure
\* iff the worker stored an exception, the operation's value otherwise; nothing
\* is raised in the caller, and the public method answers True only for a value
\* True: timeout and failure both become False.
C11_ThreeOutcomes ==
    [][(caller = "alive" /\ caller' = "back") =>
          /\ outcome' \in {"timeout", "failure"} \cup CoroValues
          /\ (outcome' = "timeout") <=> IsAlive(Cur)
          /\ (outcome' = "failure") <=> (workers[Cur].status = "raised")
          /\ (outcome' \in CoroValues) <=>
                (workers[Cur].status = "returned" /\ outcome' = workers[Cur].result)
          /\ answer' \in {"True", "False"}
          /\ (answer' = "True") <=> (outcome' = "True")]_vars

\* C11 witness: a call whose worker raised has come back with the failure
\* outcome and the answer False, after an earlier call that timed out.
C11_Witness ==
    /\ caller = "back"
    /\ Cur = 2
    /\ workers[1].coro = "never"
    /\ workers[2].status = "raised"
    /\ outcome = "failure"
    /\ answer = "False"

\* C12 as stated: a stop_recording() called when no start_recording() has
\* succeeded since the last stop (never started, already stopped, or the start
\* failed) returns None at once, raises nothing, and changes no field of the
\* recorder.
C12_StopWithoutStart ==
    [][(client = "idle" /\ lastCall' = "stop" /\ now' = now + 1 /\ ~started) =>
          /\ client' = "idle"
          /\ returned' = NoData
          /\ UNCHANGED <<recording, audioData, stream, openStreams, recordingStart>>]_vars

\* C13: a start_recording() called while the recorder is recording returns at
\* once without an exception, opens no stream, and leaves the blocks and the
\* recording start time as they were.
C13_StartWhileRecording ==
    [][(client = "idle" /\ lastCall' = "start" /\ now' = now + 1 /\ recording) =>
          /\ client' = "idle"
          /\ returned' = NoData
          /\ UNCHANGED <<recording, audioData, recordingStart, stream, openStreams>>]_vars

\* C13 witness: the last call was a start_recording() that changed nothing,
\* made while a started recording held blocks.
C13_Witness ==
    /\ client = "idle"
    /\ lastCall = "start"
    /\ returned = NoData
    /\ recording /\ started
    /\ Len(audioData) > 0
    /\ recordingStart < now

\* C14: when stop_recording() collects, the blocks delivered while recording
\* since the start, flagged or not, come back as one buffer in arrival order,
\* of length s1 + ... + sN and of duration that length over the sample rate.
C14_BufferIsConcatenation ==
    [][(client = "stop_collect" /\ client' = "idle" /\ accepted # <<>>) =>
          /\ returned'.kind = "data"
          /\ returned'.audio = Samples(accepted)
          /\ Len(returned'.audio) = TotalSize(accepted)
          /\ returned'.sample_rate = sampleRate
          /\ returned'.duration = <<TotalSize(accepted), sampleRate>>]_vars

\* C14 witness: a buffer of two blocks of different sizes, the first of them
\* flagged by the driver, at sample rate 2.
C14_Witness ==
    /\ client = "idle"
    /\ lastCall = "stop"
    /\ returned.kind = "data"
    /\ Len(accepted) = 2
    /\ accepted[1].status
    /\ accepted[1].size # accepted[2].size
    /\ returned.duration = <<3, 2>>

\* C15: when stopping capture yields no data, the cycle ends in Idle: the
\* handler returns normally, transcribe() is never called and neither the
\* clipboard nor the logger receives anything.
C15_NoDataEndsIdle ==
    /\ procPc # "crashed"
    /\ (audioIn = "None" /\ procPc \notin {"out", "branch"}) =>
          /\ procPc = "done"
          /\ state = "idle"
          /\ transcribes = 0
          /\ copies = <<>>
          /\ logs = <<>>

\* A second cycle has ended on the no-data branch.
C15_Witness ==
    /\ cycles = 2
    /\ audioIn = "None"
    /\ procPc = "done"
    /\ state = "idle"

\* C16: when transcribe() raises, the exception is caught, an error
\* notification is issued, nothing goes to the clipboard or to the logger, the
\* handler ends without an unhandled exception and the state ends in Idle.
C16_TranscribeFailure ==
    /\ procPc \notin {"finally_raising", "crashed"}
    /\ (text = "raised") =>
          /\ procPc \in {"except", "finally", "done"}
          /\ copies = <<>>
          /\ logs = <<>>
          /\ (procPc \in {"finally", "done"}) =>
                /\ Len(notes) = 2
                /\ notes[2].kind = "error"
          /\ (procPc = "done") => state = "idle"

\* A cycle in which transcribe() raised has ended.
C16_Witness ==
    /\ text = "raised"
    /\ procPc = "done"
    /\ state = "idle"
    /\ notes = <<Note("info", "recording_stopped"), Note("error", "transcription")>>

\* C17: when transcribe() returns the empty string, a "No speech detected"
\* notification of the ordinary kind is issued, nothing goes to the clipboard
\* or to the logger, and the state ends in Idle.
C17_NoSpeech ==
    (text = "") =>
       /\ procPc \in {"nospeech", "finally", "done"}
       /\ copies = <<>>
       /\ logs = <<>>
       /\ \A i \in 1..Len(notes) : notes[i].kind = "info"
       /\ (procPc \in {"finally", "done"}) =>
             /\ Len(notes) = 2
             /\ notes[2] = Note("info", "no_speech")
       /\ (procPc = "done") => state = "idle"

\* A cycle in which transcribe() returned the empty string has ended.
C17_Witness ==
    /\ text = ""
    /\ procPc = "done"
    /\ state = "idle"
    /\ notes = <<Note("info", "recording_stopped"), Note("info", "no_speech")>>

\* C18: when transcribe() returns a non-empty text, the text is forwarded both
\* to the clipboard and to the logger; a failure of either is reported and the
\* cycle still ends in Idle.
C18_TextReachesBothSinks ==
    (text \in Texts /\ procPc = "done") =>
       /\ state = "idle"
       /\ Len(copies) = 1
       /\ copies[1].text = text
       /\ Len(logs) = 1
       /\ logs[1].text = text
       /\ (~copies[1].ok) => \E i \in 1..Len(notes) : notes[i].kind = "error"

\* C19 as stated: when pause() has failed in a start handler that went on to
\* start capture, the stop handler of that cycle (the handler of the next key
\* press) invokes play() once it is past stop_recording().
C19_ResumeAfterFailedPause ==
    \A t \in DOMAIN threads :
       (/\ threads[t].kind = "start"
        /\ threads[t].pc = "done"
        /\ threads[t].mark = "pfail"
        /\ t + 1 \in DOMAIN threads
        /\ threads[t + 1].pc \in {"p_branch", "p_transcribe", "done", "crashed"})
       => threads[t + 1].mark = "played"

\* C20 as stated: set_idle() is called once in a cycle, so never when the state
\* is Idle already, and after everything else the cycle does, so the handler
\* that called it does not go on to invoke play().
C20_SetIdleOnceAtEnd ==
    [][\A t \in DOMAIN threads :
          /\ ((\/ threads[t].pc = "s_exc" /\ threads'[t].pc = "s_exc_chk"
               \/ threads[t].pc = "p_branch" /\ threads'[t].pc = "done"
               \/ threads[t].pc = "p_transcribe" /\ threads'[t].pc = "done")
              => state # "idle")
          /\ ~(threads[t].pc = "s_exc_chk" /\ threads'[t].pc = "s_play_wait")]_vars

C22_ProbeAtMostOnce == probes <= 1

\* C23 as stated: at most one hotkey is installed at any time, and none is left
\* after unregister(), also when the configured combination has been changed
\* since the hotkey was installed.
C23_AtMostOneBinding ==
    /\ bindings["ctrl+shift+space"] + bindings["f9"] <= 1
    /\ (bindRet.op = "unregister") => \A k \in Keys : bindings[k] = 0

\* C24 as stated: update_hotkey(new_hotkey) comes back with True or False and
\* raises nothing; when it comes back with True the hotkey is installed and the
\* configuration names new_hotkey.
C24_UpdateReturnsOutcome ==
    (bindRet.op = "update_hotkey") =>
       /\ bindRet.ret \in {"True", "False"}
       /\ (bindRet.ret = "True") => cfgHotkey = bindRet.arg /\ bindings[bindRet.arg] > 0

\* C25: in a cycle whose copy succeeds the clipboard receives one text, the
\* post-processed one: its first character is the upper-cased first character
\* of the raw text, it ends in a sentence-ending mark and it has no run of
\* whitespace; the cycle ends in Idle.
C25_SinkGetsPostProcessed ==
    /\ Len(sink) <= 1
    /\ (sink # <<>>) =>
          LET got == sink[1]
              raw == Strip(rawText)
          IN  /\ raw # <<>>
              /\ got = cooked
              /\ got[1] = Upper(raw[1])
              /\ got[Len(got)] = "."
              /\ \A i \in 1..Len(got) : got[i] # "\t"
              /\ \A i \in 1..(Len(got) - 1) : ~(IsSpace(got[i]) /\ IsSpace(got[i + 1]))
              /\ (rawText = <<"h", " ", "W">>) => got = <<"H", " ", "W", ".">>
              /\ (textPc = "done") => state = "idle"
    /\ (textPc = "done" /\ sink = <<>> /\ Strip(rawText) # <<>>) => cooked # <<>>

\* A raw text with a run of whitespace and no ending mark has reached the
\* clipboard, and the cycle is over.
C25_Witness ==
    /\ rawText = <<"h", " ", "\t", "W">>
    /\ sink = << <<"H", " ", "W", ".">> >>
    /\ textPc = "done"
    /\ state = "idle"

\* C26 as stated: a thread that is about to read or write the hotkey state, or
\* to invoke the state-change notification, holds the HotkeyManager lock.
C26_StateUnderLock ==
    \A t \in LThreads :
       (/\ Obj(t) = "hotkey"
        /\ lthreads[t].i # 0
        /\ StepAt(t).k \in {"read_state", "write_state", "notify"})
       => lockOwner["hotkey"] = t

\* C27: a thread that is about to read or write the recorder's blocks holds the
\* recorder lock, and a thread that is about to stop and close the stream does
\* not, so the lock is then free or held by a thread in a short section.
C27_BlocksUnderLock ==
    \A t \in LThreads :
       (Obj(t) = "recorder" /\ lthreads[t].i # 0) =>
          /\ (StepAt(t).k \in {"read_blocks", "write_blocks"}) => lockOwner["recorder"] = t
          /\ (StepAt(t).k = "stop_stream") =>
                /\ lockOwner["recorder"] # t
                /\ (lthreads["driver"].i = 1) => ENABLED LockStep("driver")
                                                 \/ lockOwner["recorder"] = "driver"

\* The client is stopping the stream while the driver, inside the callback,
\* holds the lock and is about to append a block.
C27_Witness ==
    /\ lthreads["client"].meth = "stop_recording"
    /\ lthreads["client"].i # 0
    /\ StepAt("client").k = "stop_stream"
    /\ lthreads["driver"].i # 0
    /\ StepAt("driver").k \in {"read_flag", "write_blocks"}
    /\ lockOwner["recorder"] = "driver"

\* C28: a key press that is being handled comes to its end whatever the
\* callback threads do, as long as no thread stops inside a locked section.
C28_PressNeverWaits ==
    (lthreads["dispatcher"].i # 0) ~> (lthreads["dispatcher"].i = 0)

\* Two key presses have been handled, each has started its callback thread, and
\* no callback thread has taken a step.
C28_Witness ==
    /\ spawned = 2
    /\ lthreads["dispatcher"] = [meth |-> "press", i |-> 0, n |-> 2]
    /\ lthreads["handler"].n = 0
    /\ state = "processing"

\* C29: in the stop handler stop_recording() comes first; then, if the
\* was-playing flag is set, play() is called, with or without audio; and
\* transcription begins only after that, once play() has returned.
C29_StopHandlerOrder ==
    [][\A t \in DOMAIN threads :
          LET from == threads[t].pc
              to == threads'[t].pc
          IN  (threads[t].kind = "stop" /\ to # from) =>
                 /\ (to = "p_resume") => from \in {"p_begin", "p_collect"}
                 /\ (from = "p_resume") =>
                       to = IF wasMediaPlaying THEN "p_play_wait" ELSE "p_branch"
                 /\ (to = "p_play_wait") => from = "p_resume"
                 /\ (to = "p_branch") => from \in {"p_resume", "p_play_wait"}
                 /\ (to = "p_transcribe") => from = "p_branch" /\ threads[t].w = "none"]_vars

\* A stop handler that found no audio is waiting for its play() to return.
C29_Witness ==
    \E t \in DOMAIN threads :
       /\ threads[t].kind = "stop"
       /\ threads[t].pc = "p_play_wait"
       /\ threads[t].audio = <<>>
       /\ threads[t].mark = "played"

\* C30 as stated: with the option disabled or absent the start handler goes
\* from its beginning to start_recording() with no media query and no pause(),
\* and the was-playing flag stays false.
C30_OptionOffOrAbsent ==
    [][\A t \in DOMAIN threads :
          (/\ cfgPause \in {"absent", "off"}
           /\ threads[t].pc = "s_begin"
           /\ threads'[t].pc # "s_begin")
          => /\ threads'[t].pc = "s_rec"
             /\ ~wasMediaPlaying'
             /\ owed' = owed]_vars

\* C31 as stated: whenever the hotkey state is Idle and no start or stop handler
\* is in flight, the recorder is not recording and no capture stream is open.
C31_IdleMeansNotCapturing ==
    (state = "idle" /\ \A t \in DOMAIN threads : Ended_(t))
    => (~recording /\ openStreams = {})

\* C32 as stated: once a stop_recording() has returned and no start_recording()
\* or stop_recording() is under way, a stream is open only if the recorder is
\* recording and only the stream the recorder refers to is open; and the stream
\* reference is never replaced by another stream while the old one is open.
C32_StreamOnlyWhileRecording ==
    [][/\ (/\ \E t \in DOMAIN threads' :
                 /\ threads'[t].kind = "stop"
                 /\ threads'[t].pc \in {"p_resume", "p_play_wait", "p_branch",
                                        "p_transcribe", "done"}
           /\ \A t \in DOMAIN threads' :
                 threads'[t].pc \notin {"s_open", "p_test", "p_close", "p_null", "p_collect"})
          => /\ openStreams' # {} => recording'
             /\ openStreams' \subseteq {stream'}
       /\ (stream # 0 /\ stream' # 0 /\ stream' # stream) => stream \notin openStreams]_vars

\* C33 as stated: a block delivered while the recorder is not recording is
\* discarded; a start_recording() that sets the flag empties the collection, so
\* what a stop_recording() hands back was accepted since that start; and when a
\* stop_recording() returns, to a stop handler or to MurmurApp.stop(), the
\* collection is empty.
C33_BufferOfOneCycle ==
    [][/\ (delivered' # delivered /\ ~recording) => audioData' = audioData
       /\ (recording' /\ ~recording) => audioData' = <<>>
       /\ \A t \in DOMAIN threads :
            /\ threads'[t].audio # threads[t].audio => threads'[t].audio = audioData
            /\ (threads[t].pc \in {"p_begin", "p_collect"} /\ threads'[t].pc = "p_resume")
               => audioData' = <<>>
       /\ (stopPc \in {"q_lock", "q_collect"} /\ stopPc' = "stopped") => audioData' = <<>>]_vars

\* C34 as stated: once a cycle whose media was playing has invoked play() and
\* is back at Idle with no handler in flight, the step after which no bridge
\* worker is left does not leave media paused: with media playing before that
\* step, media is playing after it.
C34_MediaNotLeftPaused ==
    [][(/\ state' = "idle"
        /\ \A t \in DOMAIN threads' : Ended_(t)'
        /\ \E t \in DOMAIN threads' : threads'[t].mark = "played"
        /\ \A op \in ActingOps : abandoned'[op] = 0
        /\ media = "playing")
       => media' = "playing"]_vars

\* C35 as stated: after MurmurApp.stop() has returned and every handler thread
\* has finished, the recorder is not recording.
C35_StoppedMeansNotRecording ==
    (stopPc = "stopped" /\ \A t \in DOMAIN threads : Ended_(t)) => ~recording

====
